---------------------------- MODULE Spec2Model ----------------------------
(***************************************************************************)
(* Spindlespace: rail network generation, cycle detection, validation,     *)
(* routing and firing schedules.                                           *)
(*                                                                         *)
(* Conventions of the model                                                *)
(*   - a datetime is an integer number of hours since 2800-01-01 00:00     *)
(*     (the default construction_start); a timedelta is a number of hours. *)
(*   - a Coordinate is its x component (y = z = 0), an integer number of   *)
(*     light-years, so distance_to is |x1 - x2| and is exact.              *)
(*   - a dict is the sequence of its values in insertion order; a set of   *)
(*     str is iterated in an order the build does not fix (string hashing  *)
(*     is salted per process), so every iteration over one takes its       *)
(*     order from a nondeterministic choice.                                *)
(***************************************************************************)
EXTENDS Integers, Sequences, FiniteSets, TLC

VARIABLES
    galaxy,     \* the Galaxy an operation is applied to
    call,       \* the operation applied last, with its arguments
    result,     \* what that operation returned
    \* a RailGenerator and its generate_rail_network call in progress
    pc,                 \* where the call stands
    rng,                \* the state of self.rng
    source_systems,     \* find_source_vein_systems(galaxy)
    in_tree,            \* build_minimum_spanning_tree: in_tree
    mst_edges,          \* build_minimum_spanning_tree: edges
    bottlenecks,        \* add_redundancy_connections: bottlenecks still to visit
    additional_edges,   \* add_redundancy_connections: additional_edges
    all_edges,          \* mst_edges + redundancy_edges, the candidate edges
    accepted,           \* generate_rail_network: rails, in insertion order
    construction_date,  \* the build-out calendar
    decisions,          \* one entry per candidate processed: the edge, the verdict
    first_run           \* what an earlier run with the same seed returned

genVars == <<pc, rng, source_systems, in_tree, mst_edges, bottlenecks,
             additional_edges, all_edges, accepted, construction_date, decisions,
             first_run>>

vars == <<galaxy, call, result, genVars>>

\* no generate_rail_network call is in progress
GeneratorIdle ==
    /\ pc = "idle"
    /\ rng = 0
    /\ source_systems = <<>>
    /\ in_tree = {}
    /\ mst_edges = <<>>
    /\ bottlenecks = <<>>
    /\ additional_edges = <<>>
    /\ all_edges = <<>>
    /\ accepted = <<>>
    /\ construction_date = 0
    /\ decisions = <<>>
    /\ first_run = [none |-> TRUE]

---------------------------------------------------------------------------
(* Generic helpers                                                         *)

Min(a, b) == IF a < b THEN a ELSE b

Max(a, b) == IF a > b THEN a ELSE b

Abs(a) == IF a < 0 THEN -a ELSE a

Range(s) == {s[i] : i \in DOMAIN s}

\* every sequence over S of length 0..n
SeqsUpTo(S, n) == UNION {[1..k -> S] : k \in 0..n}

\* every order in which the elements of the set S can be iterated
Orders(S) ==
    {o \in [1..Cardinality(S) -> S] : \A i, j \in DOMAIN o : o[i] = o[j] => i = j}

\* dict[key] = value on a dict held as a function
Put(f, k, v) == [x \in DOMAIN f \cup {k} |-> IF x = k THEN v ELSE f[x]]

\* no call made yet
NoCall == [op |-> "none"]

\* Python's None
None == [none |-> TRUE]

\* an Optional value that is present
Some(x) == [none |-> FALSE, value |-> x]

---------------------------------------------------------------------------
(* core/validators.py: detect_loops (Tarjan's algorithm)                   *)

\* graph = defaultdict(list); graph[from].append(to) for each rail in order
Graph(rails) ==
    [v \in {rails[i].from_system : i \in DOMAIN rails}
           \cup {rails[i].to_system : i \in DOMAIN rails} |->
        LET out == SelectSeq(rails, LAMBDA r : r.from_system = v)
        IN  [i \in DOMAIN out |-> out[i].to_system]]

\* all_nodes: every endpoint of every rail
AllNodes(rails) ==
    {rails[i].from_system : i \in DOMAIN rails}
        \cup {rails[i].to_system : i \in DOMAIN rails}

\* the state strongconnect closes over
TarjanInit ==
    [index |-> 0, stack |-> <<>>, indices |-> <<>>, lowlinks |-> <<>>,
     on_stack |-> {}, sccs |-> <<>>]

\* the position of v on the stack (v is on it exactly once)
StackPos(stack, v) == CHOOSE i \in DOMAIN stack : stack[i] = v

\* the while True loop of strongconnect: pop down to and including v;
\* the component lists the popped nodes in pop order
PopComponent(v, t) ==
    LET p   == StackPos(t.stack, v)
        n   == Len(t.stack)
        scc == [i \in 1..(n - p + 1) |-> t.stack[n - i + 1]]
    IN  [t EXCEPT !.stack    = SubSeq(t.stack, 1, p - 1),
                  !.on_stack = t.on_stack \ Range(scc),
                  !.sccs     = IF Len(scc) > 1 THEN Append(t.sccs, scc) ELSE t.sccs]

\* the mutation: a component is closed as soon as v is done, whatever its lowlink
CloseAlways(v, t) == PopComponent(v, t)

\* lines 58-67: v is a root when its lowlink is its own index
CloseIfRoot(v, t) ==
    IF t.lowlinks[v] = t.indices[v] THEN PopComponent(v, t) ELSE t

RECURSIVE strongconnect(_, _, _), VisitSuccessors(_, _, _, _)

\* lines 43-67
strongconnect(graph, v, t) ==
    LET t1 == [t EXCEPT !.indices  = Put(t.indices, v, t.index),
                        !.lowlinks = Put(t.lowlinks, v, t.index),
                        !.index    = t.index + 1,
                        !.stack    = Append(t.stack, v),
                        !.on_stack = t.on_stack \cup {v}]
    IN  CloseIfRoot(v, VisitSuccessors(graph, v, 1, t1))

\* lines 51-56: for w in graph[v], from the i-th successor on
VisitSuccessors(graph, v, i, t) ==
    IF i > Len(graph[v]) THEN t
    ELSE LET w == graph[v][i] IN
         IF w \notin DOMAIN t.indices
         THEN LET t1 == strongconnect(graph, w, t)
              IN  VisitSuccessors(graph, v, i + 1,
                      [t1 EXCEPT !.lowlinks[v] = Min(t1.lowlinks[v], t1.lowlinks[w])])
         ELSE IF w \in t.on_stack
         THEN VisitSuccessors(graph, v, i + 1,
                      [t EXCEPT !.lowlinks[v] = Min(t.lowlinks[v], t.indices[w])])
         ELSE VisitSuccessors(graph, v, i + 1, t)

RECURSIVE TarjanFrom(_, _, _, _)

\* lines 76-78: for node in all_nodes, in the order the set yields them
TarjanFrom(graph, order, i, t) ==
    IF i > Len(order) THEN t
    ELSE IF order[i] \notin DOMAIN t.indices
    THEN TarjanFrom(graph, order, i + 1, strongconnect(graph, order[i], t))
    ELSE TarjanFrom(graph, order, i + 1, t)

\* detect_loops(rails), with all_nodes iterated in the given order
detect_loops(rails, order) ==
    TarjanFrom(Graph(rails), order, 1, TarjanInit).sccs

---------------------------------------------------------------------------
(* What a strongly connected component is, stated from reachability        *)

Edges(rails) == {<<rails[i].from_system, rails[i].to_system>> : i \in DOMAIN rails}

RECURSIVE ReachFrom(_, _)

\* the systems reachable from a system of S along one or more edges, plus S
ReachFrom(E, S) ==
    LET next == S \cup {e[2] : e \in {d \in E : d[1] \in S}}
    IN  IF next = S THEN S ELSE ReachFrom(E, next)

\* b can be reached from a along at least one edge
Reaches(E, a, b) == b \in ReachFrom(E, {e[2] : e \in {d \in E : d[1] = a}})

\* a and b lie on a common directed cycle (or are the same system)
Mutual(E, a, b) == a = b \/ (Reaches(E, a, b) /\ Reaches(E, b, a))

\* the maximal strongly connected components with two or more systems
NonTrivialSCCs(rails) ==
    LET E == Edges(rails)
        N == AllNodes(rails)
    IN  {c \in {{b \in N : Mutual(E, a, b)} : a \in N} : Cardinality(c) >= 2}

---------------------------------------------------------------------------
(* Specification SpecLoops: detect_loops applied to arbitrary rail lists   *)

SystemIds == {"A", "B", "C", "D"}

MaxLoopRails == 4

\* a rail as detect_loops reads it
EdgeRail(f, t) == [from_system |-> f, to_system |-> t]

\* the systems in the order a caller first names them
SystemRank == [s \in SystemIds |-> CHOOSE i \in 1..4 : <<"A", "B", "C", "D">>[i] = s]

\* the endpoints of a rail list in reading order: from, to, from, to, ...
Endpoints(rails) ==
    [k \in 1..(2 * Len(rails)) |->
        IF k % 2 = 1 THEN rails[(k + 1) \div 2].from_system
                     ELSE rails[k \div 2].to_system]

\* System ids are opaque to every operation: a rail list stands for all its
\* renamings, so only the lists that name their systems A, B, C, D in order
\* of first appearance are drawn.
NamedInOrder(rails) ==
    LET e == Endpoints(rails) IN
    \A k \in DOMAIN e :
        \/ SystemRank[e[k]] = 1
        \/ \E j \in 1..(k - 1) : SystemRank[e[j]] >= SystemRank[e[k]] - 1

RECURSIVE RailListsOfLen(_)

\* the rail lists of exactly n rails (a prefix of a list named in order is
\* named in order)
RailListsOfLen(n) ==
    IF n = 0 THEN {<<>>}
    ELSE {rs \in {Append(p, EdgeRail(f, t)) :
                     p \in RailListsOfLen(n - 1), f \in SystemIds, t \in SystemIds} :
             NamedInOrder(rs)}

LoopRailLists == UNION {RailListsOfLen(n) : n \in 0..MaxLoopRails}

InitLoops ==
    /\ galaxy \in {[systems |-> <<>>, rails |-> rs] : rs \in LoopRailLists}
    /\ call = NoCall
    /\ result = None
    /\ GeneratorIdle

CallDetectLoops ==
    /\ call.op = "none"
    /\ \E order \in Orders(AllNodes(galaxy.rails)) :
        /\ call' = [op |-> "detect_loops"]
        /\ result' = detect_loops(galaxy.rails, order)
    /\ UNCHANGED <<galaxy, genVars>>

NextLoops == CallDetectLoops

SpecLoops == InitLoops /\ [][NextLoops]_vars

\* C3: detect_loops returns exactly the maximal strongly connected components
\* of two or more systems of the rail graph: every returned component is one
\* of them, listed without repetition, no two returned components share a
\* system, none is missing, and this holds for every order of the rails and
\* every order in which the start nodes are visited.
C3_DetectLoopsIsSCC ==
    call.op = "detect_loops" =>
        /\ {Range(result[i]) : i \in DOMAIN result} = NonTrivialSCCs(galaxy.rails)
        /\ \A i \in DOMAIN result : Cardinality(Range(result[i])) = Len(result[i])
        /\ \A i, j \in DOMAIN result :
               i # j => Range(result[i]) \cap Range(result[j]) = {}

\* a call that returned two components
C3_Witness ==
    /\ call.op = "detect_loops"
    /\ Len(result) = 2
    /\ Len(galaxy.rails) = 4

---------------------------------------------------------------------------
(* core/models.py: Coordinate, and dict access                             *)

\* Coordinate.distance_to on the x axis
distance_to(c1, c2) == Abs(c1 - c2)

\* what evaluating d[key] does: the value, or KeyError when key is no key
KeyError == [raised |-> "KeyError"]

DictGet(d, key) == IF key \in DOMAIN d THEN [raised |-> "no", value |-> d[key]]
                                       ELSE KeyError

---------------------------------------------------------------------------
(* core/validators.py: validate_rail_network                               *)

RECURSIVE ConcatAll(_)

\* errors.append over a loop: the per-iteration finding lists, joined
ConcatAll(ss) == IF ss = <<>> THEN <<>> ELSE Head(ss) \o ConcatAll(Tail(ss))

\* lines 92-94
CycleFindings(rails, order) ==
    LET loops == detect_loops(rails, order)
    IN  IF loops # <<>> THEN <<[kind |-> "cycle", loops |-> loops]>> ELSE <<>>

\* lines 97-104
OrphanFindings(g) ==
    LET orphaned == AllNodes(g.rails) \ DOMAIN g.systems
    IN  IF orphaned # {} THEN <<[kind |-> "orphaned", systems |-> orphaned]>> ELSE <<>>

\* lines 108-111
EndpointFindings(g, rail) ==
    (IF rail.from_system \notin DOMAIN g.systems
       THEN <<[kind |-> "unknown_from", rail |-> rail.id, system |-> rail.from_system]>>
       ELSE <<>>)
    \o
    (IF rail.to_system \notin DOMAIN g.systems
       THEN <<[kind |-> "unknown_to", rail |-> rail.id, system |-> rail.to_system]>>
       ELSE <<>>)

\* the mutation: the length of every rail is compared, known endpoints or not
LengthGuardAbsent(g, rail) == TRUE

\* line 114
LengthGuard(g, rail) ==
    rail.from_system \in DOMAIN g.systems /\ rail.to_system \in DOMAIN g.systems

\* line 120: abs(actual_distance - rail.length) > rail.length * 0.01
LengthMismatch(actual_distance, length) ==
    100 * Abs(actual_distance - length) > length

\* lines 114-124; raised is "KeyError" when a system lookup fails
LengthFindings(g, rail) ==
    IF LengthGuard(g, rail)
    THEN LET from_sys == DictGet(g.systems, rail.from_system)
             to_sys   == DictGet(g.systems, rail.to_system)
         IN  IF from_sys = KeyError \/ to_sys = KeyError
             THEN [raised |-> "KeyError", errors |-> <<>>]
             ELSE [raised |-> "no",
                   errors |->
                     IF LengthMismatch(
                            distance_to(from_sys.value.coord, to_sys.value.coord),
                            rail.length)
                     THEN <<[kind |-> "length", rail |-> rail.id]>>
                     ELSE <<>>]
    ELSE [raised |-> "no", errors |-> <<>>]

\* lines 107-124, for one rail
RailFindings(g, rail) == EndpointFindings(g, rail) \o LengthFindings(g, rail).errors

\* lines 127-132
DuplicateFindings(rails) ==
    ConcatAll([i \in DOMAIN rails |->
        IF \E j \in 1..(i - 1) :
               /\ rails[j].from_system = rails[i].from_system
               /\ rails[j].to_system = rails[i].to_system
        THEN <<[kind |-> "duplicate", from_system |-> rails[i].from_system,
                to_system |-> rails[i].to_system]>>
        ELSE <<>>])

RECURSIVE SumSeq(_)

\* sum(...) over a sequence of numbers
SumSeq(xs) == IF xs = <<>> THEN 0 ELSE Head(xs) + SumSeq(Tail(xs))

\* line 135
TotalGravitiumCost(g) == SumSeq([i \in DOMAIN g.rails |-> g.rails[i].gravitium_cost])

\* lines 136-138; g.order lists the keys of galaxy.systems in insertion order
TotalGravitiumAvailable(g) ==
    SumSeq([i \in DOMAIN g.order |-> g.systems[g.order[i]].gravitium_deposits])

\* the mutation: a cost equal to the deposits is reported as well
GravitiumFindingsAtEqual(g) ==
    IF TotalGravitiumCost(g) >= TotalGravitiumAvailable(g)
    THEN <<[kind |-> "gravitium", need |-> TotalGravitiumCost(g),
            have |-> TotalGravitiumAvailable(g)]>>
    ELSE <<>>

\* lines 140-144
GravitiumFindings(g) ==
    IF TotalGravitiumCost(g) > TotalGravitiumAvailable(g)
    THEN <<[kind |-> "gravitium", need |-> TotalGravitiumCost(g),
            have |-> TotalGravitiumAvailable(g)]>>
    ELSE <<>>

\* the mutation: a check is skipped once an earlier check has found something
StopAtFirstFinding(errors, more) == IF errors # <<>> THEN errors ELSE more

\* each check appends to the one errors list, whatever the list holds already
AlsoCheck(errors, more) == errors \o more

\* validate_rail_network(galaxy): the (is_valid, errors) pair, or the
\* exception that left the function
validate_rail_network(g, order) ==
    IF \E i \in DOMAIN g.rails : LengthFindings(g, g.rails[i]).raised # "no"
    THEN KeyError
    ELSE LET e1 == AlsoCheck(<<>>, CycleFindings(g.rails, order))
             e2 == AlsoCheck(e1, OrphanFindings(g))
             e3 == AlsoCheck(e2,
                       ConcatAll([i \in DOMAIN g.rails |-> RailFindings(g, g.rails[i])]))
             e4 == AlsoCheck(e3, DuplicateFindings(g.rails))
             errors == AlsoCheck(e4, GravitiumFindings(g))
         IN  [raised |-> "no", is_valid |-> Len(errors) = 0, errors |-> errors]

---------------------------------------------------------------------------
(* Specification SpecValidate: validate_rail_network on arbitrary galaxies *)

MaxValRails == 4

\* the fields of a System the validator reads
ValSystem(x, deposits) == [coord |-> x, gravitium_deposits |-> deposits]

\* A and B are systems of the galaxy, 100 light-years apart; C never is.
\* The deposits of A range over less than, exactly, and more than the cost
\* of two rails.
ValSystemDicts ==
    {[systems |-> [s \in {"A", "B"} |->
                      IF s = "A" THEN ValSystem(0, dep) ELSE ValSystem(100, 0)],
      order |-> <<"A", "B">>] : dep \in {0, 600, 1200}}

ValPairs == {<<"A", "B">>, <<"B", "A">>, <<"A", "C">>, <<"A", "A">>}

\* a length equal to the distance of the endpoints (A to A: 0, A to B: 100),
\* and one 3 light-years off, which is outside the 1% tolerance
ValLengths(pair) == IF pair[1] = pair[2] THEN {0, 3} ELSE {100, 103}

ValRailCost == 300

\* the rail at position i of galaxy.rails
ValRail(i, pair, length) ==
    [id |-> i, from_system |-> pair[1], to_system |-> pair[2], length |-> length,
     gravitium_cost |-> ValRailCost]

ValRailChoices == UNION {{<<pair, len>> : len \in ValLengths(pair)} : pair \in ValPairs}

ValRailLists ==
    UNION {{[i \in 1..n |-> ValRail(i, c[i][1], c[i][2])] :
                c \in [1..n -> ValRailChoices]} : n \in 0..MaxValRails}

InitValidate ==
    /\ galaxy \in {[systems |-> d.systems, order |-> d.order, rails |-> rs] :
                      d \in ValSystemDicts, rs \in ValRailLists}
    /\ call = NoCall
    /\ result = None
    /\ GeneratorIdle

CallValidate ==
    /\ call.op = "none"
    /\ \E order \in Orders(AllNodes(galaxy.rails)) :
        /\ call' = [op |-> "validate_rail_network"]
        /\ result' = validate_rail_network(galaxy, order)
    /\ UNCHANGED <<galaxy, genVars>>

NextValidate == CallValidate

SpecValidate == InitValidate /\ [][NextValidate]_vars

Validated == call.op = "validate_rail_network"

Kinds(errors) == {errors[i].kind : i \in DOMAIN errors}

\* the defects of a galaxy, stated on the galaxy itself
HasCycle(g) == NonTrivialSCCs(g.rails) # {}

Dangling(g, rail) ==
    rail.from_system \notin DOMAIN g.systems \/ rail.to_system \notin DOMAIN g.systems

HasDangling(g) == \E i \in DOMAIN g.rails : Dangling(g, g.rails[i])

HasDuplicate(g) ==
    \E i, j \in DOMAIN g.rails :
        /\ i < j
        /\ g.rails[i].from_system = g.rails[j].from_system
        /\ g.rails[i].to_system = g.rails[j].to_system

HasLengthMismatch(g) ==
    \E i \in DOMAIN g.rails :
        /\ ~Dangling(g, g.rails[i])
        /\ 100 * Abs(Abs(g.systems[g.rails[i].from_system].coord
                         - g.systems[g.rails[i].to_system].coord)
                     - g.rails[i].length) > g.rails[i].length

HasShortfall(g) ==
    Len(g.rails) * ValRailCost
        > g.systems["A"].gravitium_deposits + g.systems["B"].gravitium_deposits

\* C9: every check of validate_rail_network runs on every call: whenever a
\* galaxy has a cycle through two or more systems (the cycle of section 4.1),
\* a dangling endpoint, a duplicate (from, to) pair, a length mismatch or a
\* gravitium shortfall, the finding list holds a finding of that kind,
\* whichever other defects the galaxy has; and is_valid is true exactly when
\* the finding list is empty.
C9_AllChecksRun ==
    (Validated /\ result.raised = "no") =>
        /\ HasCycle(galaxy) => "cycle" \in Kinds(result.errors)
        /\ HasDangling(galaxy) =>
               /\ "orphaned" \in Kinds(result.errors)
               /\ Kinds(result.errors) \cap {"unknown_from", "unknown_to"} # {}
        /\ HasDuplicate(galaxy) => "duplicate" \in Kinds(result.errors)
        /\ HasLengthMismatch(galaxy) => "length" \in Kinds(result.errors)
        /\ HasShortfall(galaxy) => "gravitium" \in Kinds(result.errors)
        /\ result.is_valid <=> (result.errors = <<>>)

\* a galaxy with all five defects at once, validated
C9_Witness ==
    /\ Validated
    /\ HasCycle(galaxy) /\ HasDangling(galaxy) /\ HasDuplicate(galaxy)
    /\ HasLengthMismatch(galaxy) /\ HasShortfall(galaxy)
    /\ {"cycle", "unknown_to", "duplicate", "length", "gravitium"}
           \subseteq Kinds(result.errors)

\* C10: validate_rail_network returns an (is_valid, findings) pair for every
\* galaxy and raises nothing, also when a rail names a system that is no key
\* of galaxy.systems; every such rail has a finding that names the rail and
\* the missing system, and is_valid is then false.
C10_DanglingIsFinding ==
    Validated =>
        /\ result.raised = "no"
        /\ \A i \in DOMAIN galaxy.rails :
               LET r == galaxy.rails[i] IN
               /\ r.from_system \notin DOMAIN galaxy.systems =>
                      [kind |-> "unknown_from", rail |-> r.id, system |-> r.from_system]
                          \in Range(result.errors)
               /\ r.to_system \notin DOMAIN galaxy.systems =>
                      [kind |-> "unknown_to", rail |-> r.id, system |-> r.to_system]
                          \in Range(result.errors)
        /\ HasDangling(galaxy) => ~result.is_valid

\* a galaxy whose only defect is a rail to a system that does not exist
C10_Witness ==
    /\ Validated
    /\ result.raised = "no"
    /\ HasDangling(galaxy)
    /\ Kinds(result.errors) = {"orphaned", "unknown_to"}

\* the gravitium findings of a finding list
GravitiumReported(errors) == SelectSeq(errors, LAMBDA e : e.kind = "gravitium")

\* some system can be reached from itself along one or more rails: a
\* directed cycle of any length, a rail from a system to itself included
HasDirectedCycle(g) ==
    \E a \in AllNodes(g.rails) : Reaches(Edges(g.rails), a, a)

\* C27: if validate_rail_network returns is_valid = true, the rail graph of
\* the Galaxy has no directed cycle of any length, a rail whose from_system
\* equals its to_system counting as a cycle of length one.
C27_ValidMeansNoDirectedCycle ==
    (Validated /\ result.raised = "no" /\ result.is_valid) => ~HasDirectedCycle(galaxy)

\* C11: validate_rail_network reports a gravitium finding, and so returns
\* is_valid = false, exactly when the gravitium_cost of all rails sums to
\* strictly more than the gravitium_deposits of all systems; the finding
\* names both sums; when the sums are equal there is no gravitium finding.
C11_ShortfallIffCostExceeds ==
    (Validated /\ result.raised = "no") =>
        /\ HasShortfall(galaxy) =>
               /\ ~result.is_valid
               /\ GravitiumReported(result.errors) =
                      <<[kind |-> "gravitium",
                         need |-> Len(galaxy.rails) * ValRailCost,
                         have |-> galaxy.systems["A"].gravitium_deposits
                                    + galaxy.systems["B"].gravitium_deposits]>>
        /\ ~HasShortfall(galaxy) => GravitiumReported(result.errors) = <<>>

\* a galaxy whose only defect is the shortfall (two sound rails costing 600
\* against deposits of 0), validated and found invalid
C11_Witness ==
    /\ Validated
    /\ result.raised = "no"
    /\ Len(galaxy.rails) = 2
    /\ galaxy.systems["A"].gravitium_deposits = 0
    /\ Kinds(result.errors) = {"gravitium"}
    /\ ~result.is_valid

---------------------------------------------------------------------------
(* Specification SpecValidateTwice: validate_rail_network called twice on  *)
(* one Galaxy object, in one process                                       *)

MaxTwiceRails == 3

\* the mutation: the second call walks the set in an order of its own
AnyOrderAgain(first_order, nodes) == Orders(nodes)

\* validators.py line 76, "for node in all_nodes": the orders in which a
\* later call of the same process may walk the set. The set is built anew
\* from the same strings inserted in the same sequence, and the hash of a
\* string is fixed for the life of a process, so the order is the earlier one.
OrdersAgain(first_order, nodes) == {first_order}

TwiceRailLists ==
    UNION {{[i \in 1..n |-> ValRail(i, c[i][1], c[i][2])] :
                c \in [1..n -> ValRailChoices]} : n \in 0..MaxTwiceRails}

InitValidateTwice ==
    /\ galaxy \in {[systems |-> d.systems, order |-> d.order, rails |-> rs] :
                      d \in ValSystemDicts, rs \in TwiceRailLists}
    /\ call = NoCall
    /\ result = None
    /\ GeneratorIdle

\* the first call
ValidateOnce ==
    /\ call.op = "none"
    /\ \E order \in Orders(AllNodes(galaxy.rails)) :
        /\ call' = [op |-> "validate_rail_network", order |-> order, calls |-> 1]
        /\ result' = validate_rail_network(galaxy, order)
    /\ UNCHANGED <<galaxy, genVars>>

\* the second call on the same galaxy; first_run keeps what the first returned
ValidateAgain ==
    /\ call.op = "validate_rail_network"
    /\ call.calls = 1
    /\ \E order \in OrdersAgain(call.order, AllNodes(galaxy.rails)) :
        /\ call' = [call EXCEPT !.calls = 2]
        /\ first_run' = Some(result)
        /\ result' = validate_rail_network(galaxy, order)
    /\ UNCHANGED <<galaxy, pc, rng, source_systems, in_tree, mst_edges, bottlenecks,
                   additional_edges, all_edges, accepted, construction_date,
                   decisions>>

NextValidateTwice ==
    \/ ValidateOnce
    \/ ValidateAgain

SpecValidateTwice == InitValidateTwice /\ [][NextValidateTwice]_vars

ValidatedTwice == call.op = "validate_rail_network" /\ call.calls = 2

---------------------------------------------------------------------------
(* core/models.py: Galaxy.get_route (breadth-first search)                 *)

\* the mutation: the rails are followed against their direction
EntersCurrent(rail, current) == rail.to_system = current

\* line 262
LeavesCurrent(rail, current) == rail.from_system = current

RECURSIVE ScanRails(_, _, _, _, _, _, _)

\* lines 261-269: for rail in self.rails.values(), from the i-th rail on, with
\* (current, path) just taken from the queue; returns the route when the
\* destination is met, and the queue and visited set otherwise
ScanRails(rails, to_system, current, path, i, queue, visited) ==
    IF i > Len(rails) THEN [found |-> FALSE, queue |-> queue, visited |-> visited]
    ELSE IF LeavesCurrent(rails[i], current)
    THEN LET next_system == rails[i].to_system IN
         IF next_system = to_system
         THEN [found |-> TRUE, route |-> Append(path, next_system)]
         ELSE IF next_system \notin visited
         THEN ScanRails(rails, to_system, current, path, i + 1,
                        Append(queue, <<next_system, Append(path, next_system)>>),
                        visited \cup {next_system})
         ELSE ScanRails(rails, to_system, current, path, i + 1, queue, visited)
    ELSE ScanRails(rails, to_system, current, path, i + 1, queue, visited)

RECURSIVE SearchQueue(_, _, _, _)

\* lines 257-271: while queue
SearchQueue(rails, to_system, queue, visited) ==
    IF queue = <<>> THEN None
    ELSE LET scan == ScanRails(rails, to_system, Head(queue)[1], Head(queue)[2], 1,
                               Tail(queue), visited)
         IN  IF scan.found THEN Some(scan.route)
             ELSE SearchQueue(rails, to_system, scan.queue, scan.visited)

\* Galaxy.get_route(from_system, to_system)
get_route(g, from_system, to_system) ==
    IF from_system = to_system THEN Some(<<from_system>>)
    ELSE SearchQueue(g.rails, to_system, <<<<from_system, <<from_system>>>>>>,
                     {from_system})

---------------------------------------------------------------------------
(* Shortest directed paths, stated from the edge set                       *)

RECURSIVE Within(_, _, _)

\* the systems that a path of at most k edges from a ends at
Within(E, a, k) ==
    IF k = 0 THEN {a}
    ELSE LET S == Within(E, a, k - 1) IN S \cup {e[2] : e \in {d \in E : d[1] \in S}}

\* b is the end of some directed path from a (of no edge when a = b)
Reachable(E, a, b) == \E k \in 0..Cardinality(E) : b \in Within(E, a, k)

\* the number of edges of a shortest path from a to b, which is reachable
MinHops(E, a, b) ==
    CHOOSE k \in 0..Cardinality(E) :
        b \in Within(E, a, k) /\ \A j \in 0..(k - 1) : b \notin Within(E, a, j)

---------------------------------------------------------------------------
(* Specification SpecRoute: get_route on arbitrary rail graphs             *)

MaxRouteRails == 4

RouteRailLists == UNION {RailListsOfLen(n) : n \in 0..MaxRouteRails}

InitRoute ==
    /\ galaxy \in {[systems |-> <<>>, rails |-> rs] : rs \in RouteRailLists}
    /\ call = NoCall
    /\ result = None
    /\ GeneratorIdle

CallGetRoute ==
    /\ call.op = "none"
    /\ \E a \in SystemIds, b \in SystemIds :
        /\ call' = [op |-> "get_route", from_system |-> a, to_system |-> b]
        /\ result' = get_route(galaxy, a, b)
    /\ UNCHANGED <<galaxy, genVars>>

NextRoute == CallGetRoute

SpecRoute == InitRoute /\ [][NextRoute]_vars

\* C4: get_route(a, b) returns None exactly when b cannot be reached from a
\* along the rails' directions; otherwise it returns a path that starts at a,
\* ends at b, steps only along rails from_system -> to_system, and has the
\* least number of hops of any such path.  Rails A->B, B->C without A->C give
\* [A, B, C] for A to C; the single rail A->B gives None for A to C.
C4_RouteIsShortest ==
    call.op = "get_route" =>
        LET E == Edges(galaxy.rails)
            a == call.from_system
            b == call.to_system
        IN  /\ result.none <=> ~Reachable(E, a, b)
            /\ ~result.none =>
                   LET path == result.value IN
                   /\ path[1] = a
                   /\ path[Len(path)] = b
                   /\ \A i \in 1..(Len(path) - 1) : <<path[i], path[i + 1]>> \in E
                   /\ Len(path) - 1 = MinHops(E, a, b)
            /\ (E = {<<"A", "B">>, <<"B", "C">>} /\ a = "A" /\ b = "C")
                   => result = Some(<<"A", "B", "C">>)
            /\ (E = {<<"A", "B">>} /\ a = "A" /\ b = "C") => result = None

\* a two-hop route returned although a longer path to the same system exists
C4_Witness ==
    /\ call.op = "get_route"
    /\ ~result.none
    /\ Len(result.value) = 3
    /\ Edges(galaxy.rails)
           = {<<"A", "B">>, <<"B", "C">>, <<"C", "D">>, <<"B", "D">>}
    /\ call.from_system = "A" /\ call.to_system = "D"

---------------------------------------------------------------------------
(* Time                                                                    *)

\* timedelta(hours=1), the unit of time of the model
Hour == 1

\* timedelta(days=1)
Day == 24 * Hour

\* timedelta(days=n)
Days(n) == n * Day

---------------------------------------------------------------------------
(* generators/schedgen.py: generate_rail_schedule                          *)

RECURSIVE AdvanceWhileBefore(_, _, _)

\* lines 29-30: while current_date < rail.next_fire: current_date += interval
AdvanceWhileBefore(current_date, next_fire, interval_days) ==
    IF current_date < next_fire
    THEN AdvanceWhileBefore(current_date + Days(interval_days), next_fire, interval_days)
    ELSE current_date

RECURSIVE DeparturesUntil(_, _, _)

\* lines 34-36: while current_date <= end_date: append, advance
DeparturesUntil(current_date, end_date, interval_days) ==
    IF current_date <= end_date
    THEN <<current_date>>
             \o DeparturesUntil(current_date + Days(interval_days), end_date, interval_days)
    ELSE <<>>

\* generate_rail_schedule(rail, start_date, duration_days): the Schedule
generate_rail_schedule(rail, start_date, duration_days) ==
    LET current_date == AdvanceWhileBefore(start_date, rail.next_fire, rail.interval_days)
        end_date     == start_date + Days(duration_days)
    IN  [rail_id      |-> rail.id,
         departures   |-> DeparturesUntil(current_date, end_date, rail.interval_days),
         transit_time |-> Hour]

---------------------------------------------------------------------------
(* Specification SpecSchedule: generate_rail_schedule on one rail          *)

MaxDay == 12

MaxInterval == 5

MaxDuration == 15

\* midnight and noon of the days 0..MaxDay
ScheduleTimes == {Days(n) + h * Hour : n \in 0..MaxDay, h \in {0, 12}}

\* the fields of a Rail the schedule reads
ScheduleRail(interval_days, next_fire) ==
    [id |-> 1, interval_days |-> interval_days, next_fire |-> next_fire]

InitSchedule ==
    /\ galaxy \in {[systems |-> <<>>, rails |-> <<ScheduleRail(iv, nf)>>] :
                      iv \in 1..MaxInterval, nf \in ScheduleTimes}
    /\ call = NoCall
    /\ result = None
    /\ GeneratorIdle

CallGenerateRailSchedule ==
    /\ call.op = "none"
    /\ \E start \in ScheduleTimes, duration \in 0..MaxDuration :
        /\ call' = [op |-> "generate_rail_schedule", start_date |-> start,
                    duration_days |-> duration]
        /\ result' = generate_rail_schedule(galaxy.rails[1], start, duration)
    /\ UNCHANGED <<galaxy, genVars>>

NextSchedule == CallGenerateRailSchedule

SpecSchedule == InitSchedule /\ [][NextSchedule]_vars

\* the firings of a rail: next_fire + k * interval_days, k = 0, 1, 2, ...
IsFiring(rail, t) ==
    t >= rail.next_fire /\ (t - rail.next_fire) % Days(rail.interval_days) = 0

\* C5: generate_rail_schedule returns exactly the firings of the rail that lie
\* in the window [start, start + duration], in ascending order, beginning with
\* the first firing at or after start (next_fire day 10, interval 5: from day 0
\* the departures are 10, 15, 20, ...; from day 12 they are 15, 20, 25, ...).
C5_ScheduleIsFirings ==
    call.op = "generate_rail_schedule" =>
        LET rail == galaxy.rails[1]
            dep  == result.departures
            lo   == call.start_date
            hi   == call.start_date + Days(call.duration_days)
        IN  /\ Range(dep) = {t \in lo..hi : IsFiring(rail, t)}
            /\ \A i \in 1..(Len(dep) - 1) : dep[i] < dep[i + 1]

---------------------------------------------------------------------------
(* generators/schedgen.py: get_next_departures, find_route_schedule        *)

RECURSIVE AdvanceWhileNotAfter(_, _, _)

\* lines 62-63: while current_date <= after_date: current_date += interval
AdvanceWhileNotAfter(current_date, after_date, interval_days) ==
    IF current_date <= after_date
    THEN AdvanceWhileNotAfter(current_date + Days(interval_days), after_date,
                              interval_days)
    ELSE current_date

\* the mutation: the firings are counted from next_fire, wherever after_date is
FromNextFire(rail, after_date, count) ==
    [i \in 1..count |-> rail.next_fire + (i - 1) * Days(rail.interval_days)]

\* get_next_departures(rail, after_date, count)
get_next_departures(rail, after_date, count) ==
    LET first == AdvanceWhileNotAfter(rail.next_fire, after_date, rail.interval_days)
    IN  [i \in 1..count |-> first + (i - 1) * Days(rail.interval_days)]

\* lines 92-96: the first rail of galaxy.rails from from_sys to to_sys
FindRail(rails, from_sys, to_sys) ==
    LET hits == {i \in DOMAIN rails :
                    rails[i].from_system = from_sys /\ rails[i].to_system = to_sys}
    IN  IF hits = {} THEN None
        ELSE Some(rails[CHOOSE i \in hits : \A j \in hits : i <= j])

\* the mutation: the destination and its arrival time are left out
WithoutDestination(schedule_segments, to_system, current_time) ==
    Some(schedule_segments)

\* lines 112-115: the final destination closes the list
WithDestination(schedule_segments, to_system, current_time) ==
    Some(Append(schedule_segments, <<to_system, current_time>>))

RECURSIVE WalkRoute(_, _, _, _, _, _)

\* lines 87-115: for i in range(len(route) - 1), from hop i on, then the
\* final destination; a hop without a rail (line 99) or without a departure
\* (line 104) fails the whole query
WalkRoute(g, route, to_system, i, current_time, schedule_segments) ==
    IF i > Len(route) - 1
    THEN WithDestination(schedule_segments, to_system, current_time)
    ELSE LET rail == FindRail(g.rails, route[i], route[i + 1]) IN
         IF rail.none THEN None
         ELSE LET next_departures == get_next_departures(rail.value, current_time, 1) IN
              IF next_departures = <<>> THEN None
              ELSE WalkRoute(g, route, to_system, i + 1, next_departures[1] + Hour,
                             Append(schedule_segments, <<route[i], next_departures[1]>>))

\* find_route_schedule(galaxy, from_system, to_system, departure_after)
find_route_schedule(g, from_system, to_system, departure_after) ==
    LET route == get_route(g, from_system, to_system) IN
    IF route.none THEN None
    ELSE IF Len(route.value) = 1 THEN Some(<<<<from_system, departure_after>>>>)
    ELSE WalkRoute(g, route.value, to_system, 1, departure_after, <<>>)

---------------------------------------------------------------------------
(* generators/schedgen.py: calculate_journey_time                          *)

\* the mutation: the journey is counted from departure_after
FromDepartureAfter(schedule, departure_after) == departure_after

\* line 124: start_time = schedule[0][1]
StartTime(schedule, departure_after) == schedule[1][2]

\* calculate_journey_time(galaxy, from_system, to_system, departure_after),
\* a duration in hours; "not schedule" holds of None and of the empty list
calculate_journey_time(g, from_system, to_system, departure_after) ==
    LET schedule == find_route_schedule(g, from_system, to_system, departure_after) IN
    IF schedule.none \/ schedule.value = <<>> THEN None
    ELSE LET start_time == StartTime(schedule.value, departure_after)
             end_time   == schedule.value[Len(schedule.value)][2]
         IN  Some(end_time - start_time)

---------------------------------------------------------------------------
(* Specification SpecTimed: find_route_schedule on small timed networks    *)

MaxTimedRails == 2

TimedSystems == {"A", "B", "C"}

TimedPairs == {<<"A", "B">>, <<"B", "C">>, <<"A", "C">>}

TimedIntervals == {1, 2}

\* next_fire and departure_after: midnight of days 0..2, and an hour past it
TimedInstants == {0, Day, Day + Hour, Days(2) + Hour}

\* the fields of a Rail the route engine reads
TimedRail(i, pair, interval_days, next_fire) ==
    [id |-> i, from_system |-> pair[1], to_system |-> pair[2],
     interval_days |-> interval_days, next_fire |-> next_fire]

TimedRailLists ==
    UNION {{[i \in 1..n |-> TimedRail(i, c[i][1], c[i][2], c[i][3])] :
                c \in [1..n -> TimedPairs \X TimedIntervals \X TimedInstants]} :
           n \in 0..MaxTimedRails}

InitTimed ==
    /\ galaxy \in {[systems |-> <<>>, rails |-> rs] : rs \in TimedRailLists}
    /\ call = NoCall
    /\ result = None
    /\ GeneratorIdle

CallFindRouteSchedule ==
    /\ call.op = "none"
    /\ \E a \in TimedSystems, b \in TimedSystems, t \in TimedInstants :
        /\ call' = [op |-> "find_route_schedule", from_system |-> a,
                    to_system |-> b, departure_after |-> t]
        /\ result' = find_route_schedule(galaxy, a, b, t)
    /\ UNCHANGED <<galaxy, genVars>>

CallCalculateJourneyTime ==
    /\ call.op = "none"
    /\ \E a \in TimedSystems, b \in TimedSystems, t \in TimedInstants :
        /\ call' = [op |-> "calculate_journey_time", from_system |-> a,
                    to_system |-> b, departure_after |-> t]
        /\ result' = calculate_journey_time(galaxy, a, b, t)
    /\ UNCHANGED <<galaxy, genVars>>

NextTimed ==
    \/ CallFindRouteSchedule
    \/ CallCalculateJourneyTime

SpecTimed == InitTimed /\ [][NextTimed]_vars

\* a timed route of one hop or more was returned
TimedRouteReturned ==
    call.op = "find_route_schedule" /\ ~result.none /\ Len(result.value) >= 2

\* the cursor of hop i of a returned timed route
Cursor(timed, departure_after, i) ==
    IF i = 1 THEN departure_after ELSE timed[i - 1][2] + Hour

\* the rail hop i of a returned timed route rides
HopRail(g, timed, i) == FindRail(g.rails, timed[i][1], timed[i + 1][1]).value

\* C6: at every hop of a timed route the departure is the earliest firing of
\* that hop's rail at or after the cursor, a firing equal to the cursor being
\* taken; the cursor is departure_after at the first hop and the previous
\* departure plus one hour of transit at every later hop.
C6_EarliestAtOrAfterCursor ==
    TimedRouteReturned =>
        \A i \in 1..(Len(result.value) - 1) :
            LET rail   == HopRail(galaxy, result.value, i)
                cursor == Cursor(result.value, call.departure_after, i)
                dep    == result.value[i][2]
            IN  /\ IsFiring(rail, dep)
                /\ dep >= cursor
                /\ \A t \in cursor..dep : IsFiring(rail, t) => t = dep

\* C7: find_route_schedule returns None or a complete timed route: for a
\* route of h >= 1 hops the list has h + 1 entries, entry i naming system i of
\* the route get_route returns, the last entry being the destination with
\* the arrival time (last departure plus one hour); None is returned exactly
\* when get_route finds no route.
C7_CompleteOrAbsent ==
    call.op = "find_route_schedule" =>
        LET route == get_route(galaxy, call.from_system, call.to_system) IN
        /\ result.none <=> route.none
        /\ ~result.none =>
               /\ Len(result.value) = Len(route.value)
               /\ \A i \in DOMAIN route.value : result.value[i][1] = route.value[i]
               /\ Len(route.value) >= 2 =>
                      result.value[Len(result.value)][2]
                          = result.value[Len(result.value) - 1][2] + Hour

\* a complete timed route of two hops
C7_Witness ==
    /\ TimedRouteReturned
    /\ Len(result.value) = 3
    /\ result.value[1][1] = "A" /\ result.value[2][1] = "B" /\ result.value[3][1] = "C"

\* C26: in every timed route of one hop or more that find_route_schedule
\* returns, each departure is a firing of the rail of its hop (next_fire
\* plus k intervals, k >= 0) and is not earlier than the arrival of the hop
\* before it (that hop's departure plus one hour), so the times never
\* decrease along the route, and the time of the last entry is the last
\* departure plus one hour.
C26_DeparturesAreFiringsInOrder ==
    TimedRouteReturned =>
        LET timed == result.value
            hops  == Len(timed) - 1
        IN  /\ \A i \in 1..hops :
                  /\ IsFiring(HopRail(galaxy, timed, i), timed[i][2])
                  /\ i > 1 => timed[i][2] >= timed[i - 1][2] + Hour
            /\ \A i \in 1..hops : timed[i][2] <= timed[i + 1][2]
            /\ timed[hops + 1][2] = timed[hops][2] + Hour

\* two hops, the second rail first firing before the traveller arrives and
\* ridden at a later firing, after a wait
C26_Witness ==
    /\ TimedRouteReturned
    /\ Len(result.value) = 3
    /\ HopRail(galaxy, result.value, 2).next_fire < result.value[1][2] + Hour
    /\ result.value[2][2] > result.value[1][2] + Hour

\* the timed route find_route_schedule returns for the arguments of the call
TimedRouteOfCall ==
    find_route_schedule(galaxy, call.from_system, call.to_system, call.departure_after)

\* C16: calculate_journey_time returns the arrival time at the destination
\* minus the departure time of the first hop of the timed route that
\* find_route_schedule returns for the same arguments, the wait from
\* departure_after to the first firing not counted; it returns None exactly
\* when find_route_schedule returns no route; and for a route of h >= 1 hops
\* the duration is at least h hours.
C16_JourneyIsArrivalMinusFirstDeparture ==
    call.op = "calculate_journey_time" =>
        LET timed == TimedRouteOfCall IN
        /\ result.none <=> timed.none
        /\ ~timed.none =>
               LET hops == Len(timed.value) - 1 IN
               /\ result.value = timed.value[hops + 1][2] - timed.value[1][2]
               /\ hops >= 1 => result.value >= hops * Hour

\* a journey of two hops whose first firing comes after departure_after and
\* whose second hop has to be waited for
C16_Witness ==
    /\ call.op = "calculate_journey_time"
    /\ ~result.none
    /\ Len(TimedRouteOfCall.value) = 3
    /\ TimedRouteOfCall.value[1][2] > call.departure_after
    /\ result.value > 2 * Hour

---------------------------------------------------------------------------
(* generators/schedgen.py: find_optimal_departure_time                     *)

\* the count find_optimal_departure_time passes to get_next_departures
departure_count == 20

RECURSIVE BestDeparture(_, _, _, _, _)

\* lines 269-277: best_departure after the scan of departures from position
\* i on; a departure past end_search is passed over, a strictly smaller
\* difference replaces the best so far
BestDeparture(departures, i, preferred_time, end_search, best) ==
    IF i > Len(departures) THEN best
    ELSE IF /\ departures[i] <= end_search
            /\ (best.none \/ Abs(departures[i] - preferred_time)
                                < Abs(best.value - preferred_time))
    THEN BestDeparture(departures, i + 1, preferred_time, end_search,
                       Some(departures[i]))
    ELSE BestDeparture(departures, i + 1, preferred_time, end_search, best)

\* find_optimal_departure_time(galaxy, from_system, to_system,
\* preferred_time, flexibility_days)
find_optimal_departure_time(g, from_system, to_system, preferred_time, flexibility_days) ==
    LET route == get_route(g, from_system, to_system) IN
    IF route.none \/ Len(route.value) < 2 THEN None
    ELSE LET first_rail == FindRail(g.rails, route.value[1], route.value[2]) IN
         IF first_rail.none THEN None
         ELSE LET start_search == preferred_time - Days(flexibility_days)
                  end_search   == preferred_time + Days(flexibility_days)
                  departures   == get_next_departures(first_rail.value, start_search,
                                                      departure_count)
              IN  BestDeparture(departures, 1, preferred_time, end_search, None)

---------------------------------------------------------------------------
(* Specification SpecOptimal: find_optimal_departure_time on small timed   *)
(* networks                                                                *)

MaxOptimalRails == 2

\* flexibility_days: no slack, a day or two, and a window of more than
\* twenty daily firings on either side
OptimalFlexibilities == {0, 1, 2, 21}

\* next_fire of a rail
OptimalAnchors == {0, Days(3)}

\* interval_days of a rail
OptimalIntervals == {1, 10}

\* preferred_time
OptimalPreferred == {Days(3), Days(5), Days(5) + Hour, Days(30)}

OptimalRailLists ==
    UNION {{[i \in 1..n |-> TimedRail(i, c[i][1], c[i][2], c[i][3])] :
                c \in [1..n -> TimedPairs \X OptimalIntervals \X OptimalAnchors]} :
           n \in 0..MaxOptimalRails}

InitOptimal ==
    /\ galaxy \in {[systems |-> <<>>, rails |-> rs] : rs \in OptimalRailLists}
    /\ call = NoCall
    /\ result = None
    /\ GeneratorIdle

CallFindOptimalDepartureTime ==
    /\ call.op = "none"
    /\ \E a \in TimedSystems, b \in TimedSystems, t \in OptimalPreferred,
          n \in OptimalFlexibilities :
        /\ call' = [op |-> "find_optimal_departure_time", from_system |-> a,
                    to_system |-> b, preferred_time |-> t, flexibility_days |-> n]
        /\ result' = find_optimal_departure_time(galaxy, a, b, t, n)
    /\ UNCHANGED <<galaxy, genVars>>

NextOptimal == CallFindOptimalDepartureTime

SpecOptimal == InitOptimal /\ [][NextOptimal]_vars

\* the firings of a rail inside [preferred - n days, preferred + n days]
FiringsInWindow(rail, preferred_time, flexibility_days) ==
    {t \in (preferred_time - Days(flexibility_days))
              ..(preferred_time + Days(flexibility_days)) : IsFiring(rail, t)}

\* C17: find_optimal_departure_time returns, among all firings of the first
\* rail of the shortest route that lie within
\* [preferred - N days, preferred + N days], one whose absolute difference
\* to the preferred time is minimal; it returns None exactly when no firing
\* of that rail lies inside the window or there is no route of one hop or
\* more.
C17_ClosestFiringInWindow ==
    call.op = "find_optimal_departure_time" =>
        LET route == get_route(galaxy, call.from_system, call.to_system) IN
        IF route.none \/ Len(route.value) < 2 THEN result.none
        ELSE LET rail   == FindRail(galaxy.rails, route.value[1], route.value[2]).value
                 window == FiringsInWindow(rail, call.preferred_time,
                                           call.flexibility_days)
             IN  /\ result.none <=> window = {}
                 /\ ~result.none =>
                        /\ result.value \in window
                        /\ \A t \in window :
                               Abs(result.value - call.preferred_time)
                                   <= Abs(t - call.preferred_time)

---------------------------------------------------------------------------
(* Specification SpecDepartures: get_next_departures run statement by      *)
(* statement, for rails of any integer interval_days. The call record      *)
(* holds the arguments, the locals and the position (at) of the call.      *)

\* datetime cannot hold a date before year 1 or after year 9999; the
\* instants of the model end MaxPastDays before and MaxFutureDays after
\* 2800-01-01, and arithmetic that leaves them raises OverflowError
MaxPastDays == 4

MaxFutureDays == 12

\* count
MaxCount == 2

InRange(t) == -Days(MaxPastDays) <= t /\ t <= Days(MaxFutureDays)

DepartureRails ==
    {TimedRail(1, <<"A", "B">>, interval_days, next_fire) :
        interval_days \in -1..2, next_fire \in {0, Day, Days(2) + Hour}}

InitDepartures ==
    /\ galaxy \in {[systems |-> <<>>, rails |-> <<r>>] : r \in DepartureRails}
    /\ call = NoCall
    /\ result = None
    /\ GeneratorIdle

\* lines 55-59: the call is entered
EnterGetNextDepartures ==
    /\ call.op = "none"
    /\ \E after_date \in {0, Day, Days(2)}, count \in 1..MaxCount :
         call' = [op |-> "get_next_departures", rail |-> galaxy.rails[1],
                  after_date |-> after_date, count |-> count,
                  at |-> "while", current_date |-> galaxy.rails[1].next_fire,
                  departures |-> <<>>]
    /\ UNCHANGED <<galaxy, result, genVars>>

InGetNextDepartures(at) == call.op = "get_next_departures" /\ call.at = at

\* line 62: the condition of the while loop holds
WhileHolds ==
    /\ InGetNextDepartures("while")
    /\ call.current_date <= call.after_date
    /\ call' = [call EXCEPT !.at = "advance"]
    /\ UNCHANGED <<galaxy, result, genVars>>

\* line 63: current_date += timedelta(days=rail.interval_days)
Advance ==
    /\ InGetNextDepartures("advance")
    /\ LET next_date == call.current_date + Days(call.rail.interval_days) IN
       IF InRange(next_date)
       THEN /\ call' = [call EXCEPT !.at = "while", !.current_date = next_date]
            /\ UNCHANGED result
       ELSE /\ call' = [call EXCEPT !.at = "raised"]
            /\ result' = [raised |-> "OverflowError"]
    /\ UNCHANGED <<galaxy, genVars>>

\* line 62: the condition of the while loop fails
WhileFails ==
    /\ InGetNextDepartures("while")
    /\ call.current_date > call.after_date
    /\ call' = [call EXCEPT !.at = "for"]
    /\ UNCHANGED <<galaxy, result, genVars>>

\* lines 66-68: one pass of the for loop
CollectDeparture ==
    /\ InGetNextDepartures("for")
    /\ Len(call.departures) < call.count
    /\ LET next_date == call.current_date + Days(call.rail.interval_days) IN
       IF InRange(next_date)
       THEN /\ call' = [call EXCEPT !.departures = Append(@, call.current_date),
                                    !.current_date = next_date]
            /\ UNCHANGED result
       ELSE /\ call' = [call EXCEPT !.at = "raised"]
            /\ result' = [raised |-> "OverflowError"]
    /\ UNCHANGED <<galaxy, genVars>>

\* line 70
ReturnDepartures ==
    /\ InGetNextDepartures("for")
    /\ Len(call.departures) = call.count
    /\ call' = [call EXCEPT !.at = "returned"]
    /\ result' = Some(call.departures)
    /\ UNCHANGED <<galaxy, genVars>>

NextDepartures ==
    \/ EnterGetNextDepartures
    \/ WhileHolds
    \/ Advance
    \/ WhileFails
    \/ CollectDeparture
    \/ ReturnDepartures

\* the interpreter keeps executing the call: a statement that can be taken
\* is taken
SpecDepartures ==
    InitDepartures /\ [][NextDepartures]_vars /\ WF_vars(NextDepartures)

\* C18: every query terminates with a result or the absent value, for any
\* integer interval_days stored in a rail: here, every call of
\* get_next_departures comes to its return statement.
C18_QueriesTerminate == <>(InGetNextDepartures("returned"))

---------------------------------------------------------------------------
(* core/models.py: rail classes and gravitium cost                         *)

\* System.total_population; the systems of the model have no planets
total_population(system) == system.population

\* base_cost of calculate_gravitium_cost
BaseCost(rail_class) ==
    CASE rail_class = "RFC-A" -> 1000
      [] rail_class = "RFC-B" -> 500
      [] rail_class = "RFC-C" -> 100
      [] rail_class = "RFC-D" -> 50

\* calculate_gravitium_cost(distance, rail_class)
calculate_gravitium_cost(distance, rail_class) ==
    BaseCost(rail_class) * distance * distance

\* rail_class_from_capacity, on five times the capacity (see
\* estimate_rail_capacity_x5)
rail_class_from_capacity_x5(capacity_x5) ==
    IF capacity_x5 >= 5 * 1000000 THEN "RFC-A"
    ELSE IF capacity_x5 >= 5 * 600000 THEN "RFC-B"
    ELSE IF capacity_x5 >= 5 * 1800 THEN "RFC-C"
    ELSE "RFC-D"

---------------------------------------------------------------------------
(* generators/railgen.py: sources, costs, capacity                         *)

\* The populations of the model are 1000 * q * q, so that
\* math.sqrt(from_pop * to_pop) / 1000.0 is the integer q_from * q_to.
PopRoots == {3, 1000}

PopRoot(population) == CHOOSE q \in PopRoots : 1000 * q * q = population

RECURSIVE SortByDeposits(_, _)

\* candidates.sort(key=deposits, reverse=True): stable, so systems of equal
\* deposits keep their order
SortByDeposits(g, xs) ==
    IF xs = <<>> THEN <<>>
    ELSE LET rest == SortByDeposits(g, SubSeq(xs, 1, Len(xs) - 1))
             x    == xs[Len(xs)]
             k    == Cardinality({i \in DOMAIN rest :
                         g.systems[rest[i]].gravitium_deposits
                             >= g.systems[x].gravitium_deposits})
         IN  SubSeq(rest, 1, k) \o <<x>> \o SubSeq(rest, k + 1, Len(rest))

\* the mutation: only the richest system is taken as a source
RichestSourceOnly(g, min_gravitium) ==
    LET sources == SortByDeposits(g,
            SelectSeq(g.order, LAMBDA sid : g.systems[sid].gravitium_deposits >= min_gravitium))
    IN  SubSeq(sources, 1, Min(1, Len(sources)))

\* find_source_vein_systems(galaxy, min_gravitium)
find_source_vein_systems(g, min_gravitium) ==
    SortByDeposits(g,
        SelectSeq(g.order, LAMBDA sid : g.systems[sid].gravitium_deposits >= min_gravitium))

\* estimate_rail_capacity, times five: trade_volume is q_from * q_to, times
\* (1.0 + tech_diff * 0.2) = (5 + tech_diff) / 5; no planets, so no resources
estimate_rail_capacity_x5(from_system, to_system) ==
    LET tech_diff == Abs(from_system.tech_level - to_system.tech_level)
        trade_x5  == PopRoot(total_population(from_system))
                        * PopRoot(total_population(to_system)) * (5 + tech_diff)
    IN  Max(5 * 100, trade_x5)

\* calculate_rail_cost, times four: pop_modifier is 1, 1.5 or 2.25
calculate_rail_cost_x4(from_system, to_system, rail_class) ==
    LET distance     == distance_to(from_system.coord, to_system.coord)
        base_cost    == calculate_gravitium_cost(distance, rail_class)
        tech_modifier == (IF from_system.tech_level < 5 THEN 2 ELSE 1)
                            * (IF to_system.tech_level < 5 THEN 2 ELSE 1)
        pop_modifier_x4 == (IF total_population(from_system) < 10000 THEN 3 ELSE 2)
                            * (IF total_population(to_system) < 10000 THEN 3 ELSE 2)
    IN  base_cost * tech_modifier * pop_modifier_x4

\* lines 118-122: the cost of the edge from_id -> to_id
EdgeCost(g, from_id, to_id) ==
    LET from_system == g.systems[from_id]
        to_system   == g.systems[to_id]
    IN  calculate_rail_cost_x4(from_system, to_system,
            rail_class_from_capacity_x5(estimate_rail_capacity_x5(from_system, to_system)))

---------------------------------------------------------------------------
(* generators/railgen.py: build_minimum_spanning_tree                      *)

\* the mutation: a system already in the tree may be the target again
ScanAllTargets(g, tree, tree_order) ==
    ConcatAll([i \in DOMAIN tree_order |->
        LET others == SelectSeq(g.order, LAMBDA to_id : to_id # tree_order[i])
        IN  [j \in DOMAIN others |->
                <<tree_order[i], others[j], EdgeCost(g, tree_order[i], others[j])>>]])

\* lines 111-126: the (from_id, to_id, cost) triples in the order the two
\* nested loops meet them, in_tree being iterated in tree_order
FrontierScan(g, tree, tree_order) ==
    ConcatAll([i \in DOMAIN tree_order |->
        LET outside == SelectSeq(g.order, LAMBDA to_id : to_id \notin tree)
        IN  [j \in DOMAIN outside |->
                <<tree_order[i], outside[j], EdgeCost(g, tree_order[i], outside[j])>>]])

\* the mutation: the pair met last in the scan is taken, whatever it costs
LastMet(scan, i, best) ==
    IF scan = <<>> THEN None ELSE Some(scan[Len(scan)])

RECURSIVE BestEdge(_, _, _)

\* lines 107-126: best_edge after the scan; strictly cheaper replaces, so
\* of several cheapest edges the first met stays
BestEdge(scan, i, best) ==
    IF i > Len(scan) THEN best
    ELSE IF best.none \/ scan[i][3] < best.value[3]
    THEN BestEdge(scan, i + 1, Some(scan[i]))
    ELSE BestEdge(scan, i + 1, best)

---------------------------------------------------------------------------
(* generators/railgen.py: add_redundancy_connections                       *)

\* the endpoints of (from, to, cost) triples in reading order
TripleEnds(edges) ==
    [k \in 1..(2 * Len(edges)) |->
        IF k % 2 = 1 THEN edges[(k + 1) \div 2][1] ELSE edges[k \div 2][2]]

RECURSIVE FirstSeen(_)

\* the keys of a dict filled in the order of xs
FirstSeen(xs) ==
    IF xs = <<>> THEN <<>>
    ELSE LET init == FirstSeen(SubSeq(xs, 1, Len(xs) - 1))
         IN  IF xs[Len(xs)] \in Range(init) THEN init ELSE Append(init, xs[Len(xs)])

\* lines 143-148
Bottlenecks(edges) ==
    LET ends == TripleEnds(edges)
        connection_count(sid) == Cardinality({k \in DOMAIN ends : ends[k] = sid})
    IN  SelectSeq(FirstSeen(ends), LAMBDA sid : connection_count(sid) = 1)

\* the mutation: an edge of the tree is not seen as a connection
NeverConnected(edges, bottleneck_id, other_id) == FALSE

\* lines 162-166
already_connected(edges, bottleneck_id, other_id) ==
    \E k \in DOMAIN edges :
        \/ (bottleneck_id = edges[k][1] /\ other_id = edges[k][2])
        \/ (bottleneck_id = edges[k][2] /\ other_id = edges[k][1])

\* lines 156-168, as (other_id, distance) pairs in galaxy.systems order
nearby_systems(g, edges, bottleneck_id) ==
    LET near == SelectSeq(g.order, LAMBDA other_id :
                    /\ other_id # bottleneck_id
                    /\ distance_to(g.systems[bottleneck_id].coord,
                                   g.systems[other_id].coord) < 50
                    /\ ~already_connected(edges, bottleneck_id, other_id))
    IN  [i \in DOMAIN near |->
            <<near[i], distance_to(g.systems[bottleneck_id].coord,
                                   g.systems[near[i]].coord)>>]

\* the mutation: the list is not sorted, the system met first is taken
FirstNearby(g, edges, bottleneck_id) ==
    LET near == nearby_systems(g, edges, bottleneck_id) IN
    IF near = <<>> THEN <<>>
    ELSE <<<<bottleneck_id, near[1][1], EdgeCost(g, bottleneck_id, near[1][1])>>>>

\* lines 171-180: the edge to the closest nearby system (the stable sort
\* keeps the first of several closest), or no edge
RedundancyEdge(g, edges, bottleneck_id) ==
    LET near == nearby_systems(g, edges, bottleneck_id) IN
    IF near = <<>> THEN <<>>
    ELSE LET first == CHOOSE i \in DOMAIN near :
                          /\ \A j \in DOMAIN near : near[i][2] <= near[j][2]
                          /\ \A j \in 1..(i - 1) : near[j][2] > near[i][2]
             target_id == near[first][1]
         IN  <<<<bottleneck_id, target_id, EdgeCost(g, bottleneck_id, target_id)>>>>

---------------------------------------------------------------------------
(* random.Random: a deterministic generator; every draw advances the state *)
(* and is a function of the new state alone                                *)

RngNext(s) == (75 * s + 74) % 65537

\* rng.random() < percent / 100, the draw having left the generator in s
RandomBelow(s, percent) == 100 * s < percent * 65537

\* rng.randint(a, b), the draw having left the generator in s
RandInt(s, a, b) == a + (s % (b - a + 1))

\* redundancy_factor of add_redundancy_connections, in percent
redundancy_factor == 10

\* min_gravitium of find_source_vein_systems
min_gravitium_default == 1000

---------------------------------------------------------------------------
(* generators/railgen.py: create_rail                                      *)

\* lines 206-212: max_capacity = annual_capacity / (365.25 / interval_days),
\* as the fraction <<numerator, denominator>>
max_capacity_of(rail_class, interval_days) ==
    LET annual_x2 == CASE rail_class = "RFC-A" -> 2 * 1000000
                       [] rail_class = "RFC-B" -> 2 * 600000
                       [] rail_class = "RFC-C" -> 2 * 1800
                       [] rail_class = "RFC-D" -> 365
    IN  <<annual_x2 * 2 * interval_days, 2 * 1461>>

\* the mutation: the length is two light-years more than the distance
LengthPlusTwo(distance) == distance + 2

\* line 222: length=distance
LengthField(distance) == distance

\* create_rail(from_system_id, to_system_id, galaxy, construction_date) with
\* self.rng in state s and generate_rail_id() returning id; the five draws
\* are those of lines 198-201 and 215
create_rail(from_system_id, to_system_id, g, date, s, id) ==
    LET from_system == g.systems[from_system_id]
        to_system   == g.systems[to_system_id]
        distance    == distance_to(from_system.coord, to_system.coord)
        rail_class  == rail_class_from_capacity_x5(
                           estimate_rail_capacity_x5(from_system, to_system))
        s1 == RngNext(s)
        s2 == RngNext(s1)
        s3 == RngNext(s2)
        s4 == RngNext(s3)
        s5 == RngNext(s4)
        interval_days == CASE rail_class = "RFC-A" -> RandInt(s1, 1, 7)
                           [] rail_class = "RFC-B" -> RandInt(s2, 7, 30)
                           [] rail_class = "RFC-C" -> RandInt(s3, 30, 180)
                           [] rail_class = "RFC-D" -> RandInt(s4, 180, 365)
    IN  [rng  |-> s5,
         rail |-> [id                |-> id,
                   from_system       |-> from_system_id,
                   to_system         |-> to_system_id,
                   rail_class        |-> rail_class,
                   length            |-> LengthField(distance),
                   construction_date |-> date,
                   interval_days     |-> interval_days,
                   next_fire         |-> date + Days(RandInt(s5, 1, interval_days)),
                   gravitium_cost    |-> calculate_gravitium_cost(distance, rail_class),
                   max_capacity      |-> max_capacity_of(rail_class, interval_days)]]

\* the mutation: every candidate passes the gate
NoCycleCheck(test_rails, order) == TRUE

\* validate_no_cycles(rails)
validate_no_cycles(test_rails, order) == Len(detect_loops(test_rails, order)) = 0

\* the mutation: a rail shorter than ten light-years takes no time
NoMinimumYear(length) == (length \div 10) * (Days(1461) \div 4)

\* lines 273-274: construction_years of 365.25 days each
ConstructionTime(length) == Max(1, length \div 10) * (Days(1461) \div 4)

---------------------------------------------------------------------------
(* Specification Spec: RailGenerator(seed).generate_rail_network(galaxy)   *)

\* a System; population 9000 is below the 10,000 of the cost penalty, tech
\* level 4 below the rail age
GenSystem(x, deposits, profile) ==
    [coord |-> x, gravitium_deposits |-> deposits,
     population |-> IF profile = "core" THEN 1000000000 ELSE 9000,
     tech_level |-> IF profile = "core" THEN 5 ELSE 4]

GenDeposits == {0, 1000, 2000}

GenProfiles == {"core", "frontier"}

\* where the systems A, B and C may lie, in light-years along the x axis
GenCoords == [A : {0, 10}, B : {10, 20}, C : {0, 20, 70}]

GenGalaxies ==
    {[systems |-> [sid \in {"A", "B", "C"} |->
                      GenSystem(xs[sid], dep[sid], prof[sid])],
      order   |-> <<"A", "B", "C">>,
      rails   |-> <<>>] :
        xs \in GenCoords,
        dep \in [{"A", "B", "C"} -> GenDeposits],
        prof \in [{"A", "B", "C"} -> GenProfiles]}

\* seeds whose first two draws are both below the redundancy factor (11),
\* both above it (87), and above then below (93)
Seeds == {11, 87, 93}

\* what generate_rail_id() may return: uuid4 is not drawn from self.rng
RailIds == {"RAIL-1", "RAIL-2", "RAIL-3", "RAIL-4"}

\* RailGenerator(seed) built and generate_rail_network(galaxy) entered
GeneratorCalled(seed) ==
    /\ call = [op |-> "generate_rail_network", seed |-> seed]
    /\ result = None
    /\ pc = "start"
    /\ rng = seed
    /\ source_systems = <<>>
    /\ in_tree = {}
    /\ mst_edges = <<>>
    /\ bottlenecks = <<>>
    /\ additional_edges = <<>>
    /\ all_edges = <<>>
    /\ accepted = <<>>
    /\ construction_date = 0
    /\ decisions = <<>>

Init ==
    /\ galaxy \in GenGalaxies
    /\ \E seed \in Seeds : GeneratorCalled(seed)
    /\ first_run = None

\* lines 239-255 and 96-104: the sources, and an empty network without any
Start ==
    /\ pc = "start"
    /\ LET sources == find_source_vein_systems(galaxy, min_gravitium_default) IN
       IF sources = <<>>
       THEN /\ pc' = "done"
            /\ result' = Some(accepted)
            /\ UNCHANGED <<source_systems, in_tree>>
       ELSE /\ pc' = "mst"
            /\ source_systems' = sources
            /\ in_tree' = Range(sources)
            /\ UNCHANGED result
    /\ UNCHANGED <<galaxy, call, rng, mst_edges, bottlenecks, additional_edges,
                   all_edges, accepted, construction_date, decisions, first_run>>

\* lines 106-130: one pass of the while loop that finds an edge; in_tree is
\* a set and is scanned in an order of the interpreter's choosing
GrowTree ==
    /\ pc = "mst"
    /\ Cardinality(in_tree) < Len(galaxy.order)
    /\ \E tree_order \in Orders(in_tree) :
         LET best_edge == BestEdge(FrontierScan(galaxy, in_tree, tree_order), 1, None) IN
         /\ ~best_edge.none
         /\ mst_edges' = Append(mst_edges, best_edge.value)
         /\ in_tree' = in_tree \cup {best_edge.value[2]}
    /\ UNCHANGED <<galaxy, call, result, pc, rng, source_systems, bottlenecks,
                   additional_edges, all_edges, accepted, construction_date,
                   decisions, first_run>>

\* lines 131-133: a pass of the while loop that finds no edge
NoBestEdge ==
    \A tree_order \in Orders(in_tree) :
        BestEdge(FrontierScan(galaxy, in_tree, tree_order), 1, None).none

\* lines 106, 133-135 and 140-148: the loop ends, the tree is returned and
\* the bottlenecks are found
TreeBuilt ==
    /\ pc = "mst"
    /\ Cardinality(in_tree) >= Len(galaxy.order) \/ NoBestEdge
    /\ pc' = "redundancy"
    /\ bottlenecks' = Bottlenecks(mst_edges)
    /\ additional_edges' = <<>>
    /\ UNCHANGED <<galaxy, call, result, rng, source_systems, in_tree, mst_edges,
                   all_edges, accepted, construction_date, decisions, first_run>>

\* lines 151-180: one bottleneck
VisitBottleneck ==
    /\ pc = "redundancy"
    /\ bottlenecks # <<>>
    /\ rng' = RngNext(rng)
    /\ additional_edges' =
           IF RandomBelow(rng', redundancy_factor)
           THEN additional_edges \o RedundancyEdge(galaxy, mst_edges, Head(bottlenecks))
           ELSE additional_edges
    /\ bottlenecks' = Tail(bottlenecks)
    /\ UNCHANGED <<galaxy, call, result, pc, source_systems, in_tree, mst_edges,
                   all_edges, accepted, construction_date, decisions, first_run>>

\* lines 182 and 258-262
RedundancyDone ==
    /\ pc = "redundancy"
    /\ bottlenecks = <<>>
    /\ pc' = "create"
    /\ all_edges' = mst_edges \o additional_edges
    /\ construction_date' = 0
    /\ UNCHANGED <<galaxy, call, result, rng, source_systems, in_tree, mst_edges,
                   bottlenecks, additional_edges, accepted, decisions, first_run>>

\* an accepted rail displaces the rails accepted before it
KeepOnlyLatest(rail_list, rail, passed) ==
    IF passed THEN <<rail>> ELSE rail_list

\* lines 269-272: rails after the gate has decided on the candidate
KeepIfPassed(rail_list, rail, passed) ==
    IF passed THEN Append(rail_list, rail) ELSE rail_list

\* lines 264-277: one candidate edge is made a rail and passes the gate or not
ProcessEdge ==
    /\ pc = "create"
    /\ Len(decisions) < Len(all_edges)
    /\ LET edge == all_edges[Len(decisions) + 1] IN
       \E id \in RailIds \ {accepted[i].id : i \in DOMAIN accepted} :
         LET made       == create_rail(edge[1], edge[2], galaxy, construction_date,
                                       rng, id)
             test_rails == Append(accepted, made.rail)
         IN  /\ rng' = made.rng
             /\ \E order \in Orders(AllNodes(test_rails)) :
                  LET passed == validate_no_cycles(test_rails, order) IN
                  /\ accepted' = KeepIfPassed(accepted, made.rail, passed)
                  /\ construction_date' =
                         IF passed
                         THEN construction_date + ConstructionTime(made.rail.length)
                         ELSE construction_date
                  /\ decisions' = Append(decisions,
                         [edge |-> <<edge[1], edge[2]>>, accepted |-> passed])
    /\ UNCHANGED <<galaxy, call, result, pc, source_systems, in_tree, mst_edges,
                   bottlenecks, additional_edges, all_edges, first_run>>

\* line 279
Return ==
    /\ pc = "create"
    /\ Len(decisions) = Len(all_edges)
    /\ pc' = "done"
    /\ result' = Some(accepted)
    /\ UNCHANGED <<galaxy, call, rng, source_systems, in_tree, mst_edges,
                   bottlenecks, additional_edges, all_edges, accepted,
                   construction_date, decisions, first_run>>

Next ==
    \/ Start
    \/ GrowTree
    \/ TreeBuilt
    \/ VisitBottleneck
    \/ RedundancyDone
    \/ ProcessEdge
    \/ Return

Spec == Init /\ [][Next]_vars

\* the (from, to) pairs of a rail list, in order
EdgeSeq(rail_list) ==
    [i \in DOMAIN rail_list |-> <<rail_list[i].from_system, rail_list[i].to_system>>]

\* the (from, to) pairs of the candidate edges, in order
Candidates == [i \in DOMAIN all_edges |-> <<all_edges[i][1], all_edges[i][2]>>]

\* a candidate was turned away by the gate
SomeRejected == \E i \in DOMAIN decisions : ~decisions[i].accepted

\* C1: while generate_rail_network runs and after it, whatever candidates
\* have been processed, every prefix of the accepted rails in acceptance
\* order has no strongly connected component of two or more systems, and
\* detect_loops returns the empty list on it in whatever order it visits
C1_AcceptedPrefixesAcyclic ==
    \A n \in 0..Len(accepted) :
        LET prefix == SubSeq(accepted, 1, n) IN
        /\ NonTrivialSCCs(prefix) = {}
        /\ \A order \in Orders(AllNodes(prefix)) : detect_loops(prefix, order) = <<>>

\* a run in which the gate turned a candidate away and two rails were kept
C1_Witness ==
    /\ pc = "done"
    /\ SomeRejected
    /\ Len(accepted) >= 2

\* detect_loops is empty on the rails accepted so far plus a candidate edge
\* (only the endpoints of a rail matter to detect_loops)
PassesGate(rail_list, edge) ==
    LET test_rails == Append(EdgeSeq(rail_list), edge)
        as_rails   == [i \in DOMAIN test_rails |->
                          [from_system |-> test_rails[i][1],
                           to_system   |-> test_rails[i][2]]]
    IN  \A order \in Orders(AllNodes(as_rails)) : detect_loops(as_rails, order) = <<>>

\* one step of the acceptance loop: the next candidate, and only it, is
\* appended to the accepted rails exactly when it passes the gate
GateStep ==
    Len(decisions') = Len(decisions) + 1 =>
        LET edge == Candidates[Len(decisions) + 1] IN
        IF PassesGate(accepted, edge)
        THEN /\ Len(accepted') = Len(accepted) + 1
             /\ SubSeq(accepted', 1, Len(accepted)) = accepted
             /\ EdgeSeq(accepted')[Len(accepted')] = edge
        ELSE accepted' = accepted

\* an accepted rail stays, unchanged and in its place
AcceptedKept ==
    /\ Len(accepted') >= Len(accepted)
    /\ SubSeq(accepted', 1, Len(accepted)) = accepted

\* the candidates are taken once each in order, and the edge of a rejected
\* candidate is not among the candidates after it
NeverRetried ==
    /\ Len(decisions) <= Len(all_edges)
    /\ \A i \in DOMAIN decisions :
          /\ decisions[i].edge = Candidates[i]
          /\ ~decisions[i].accepted =>
                 \A j \in (i + 1)..Len(all_edges) : Candidates[j] # Candidates[i]

\* the accepted rails are the accepted candidates, in order
AcceptedAreDecisions ==
    EdgeSeq(accepted) =
        LET kept == SelectSeq(decisions, LAMBDA d : d.accepted)
        IN  [i \in DOMAIN kept |-> kept[i].edge]

ThreeCycleCandidates == <<<<"A", "B">>, <<"B", "C">>, <<"C", "A">>>>

\* C2: a candidate is accepted if and only if detect_loops is empty on the
\* accepted rails plus the candidate; a rejected candidate is dropped and
\* not proposed again; an accepted rail is never removed; and for the
\* candidates A->B, B->C, C->A in that order the returned network is
\* exactly A->B, B->C
C2_AcceptedIffNoLoop ==
    /\ [][GateStep /\ AcceptedKept]_vars
    /\ [](NeverRetried /\ AcceptedAreDecisions)
    /\ []((pc = "done" /\ Candidates = ThreeCycleCandidates)
            => EdgeSeq(result.value) = <<<<"A", "B">>, <<"B", "C">>>>)

\* the run over the candidates A->B, B->C, C->A has returned
C2_Witness ==
    /\ pc = "done"
    /\ Candidates = ThreeCycleCandidates
    /\ Len(decisions) = 3
    /\ ~decisions[3].accepted
    /\ EdgeSeq(accepted) = <<<<"A", "B">>, <<"B", "C">>>>

\* the generator has returned
Returned == pc = "done" /\ ~result.none

\* the input galaxy holding the rails that generate_rail_network returned
GalaxyWith(rail_list) == [galaxy EXCEPT !.rails = rail_list]

\* C13: every rail that generate_rail_network returns has a length within
\* 1% of the distance between its endpoint systems,
\* |length - distance| <= 0.01 * length, and the length check of
\* validate_rail_network has no finding for it.
C13_LengthIsDistance ==
    Returned =>
        \A i \in DOMAIN result.value :
            LET rail == result.value[i]
                gap  == Abs(rail.length
                            - Abs(galaxy.systems[rail.from_system].coord
                                  - galaxy.systems[rail.to_system].coord))
            IN  /\ 100 * gap <= rail.length
                /\ LengthFindings(GalaxyWith(result.value), rail)
                       = [raised |-> "no", errors |-> <<>>]

\* a returned network with rails of different lengths, one of them zero
C13_Witness ==
    /\ Returned
    /\ \E i, j \in DOMAIN result.value :
          result.value[i].length = 0 /\ result.value[j].length >= 10

\* C14: in the network that generate_rail_network returns every rail joins
\* two systems of the input galaxy, no rail joins a system to itself, and no
\* two rails have the same ordered (from_system, to_system) pair, the rails
\* of the redundancy phase included.
C14_EndpointsKnownAndDistinct ==
    Returned =>
        /\ \A i \in DOMAIN result.value :
              /\ result.value[i].from_system \in DOMAIN galaxy.systems
              /\ result.value[i].to_system \in DOMAIN galaxy.systems
              /\ result.value[i].from_system # result.value[i].to_system
        /\ \A i, j \in DOMAIN result.value :
              EdgeSeq(result.value)[i] = EdgeSeq(result.value)[j] => i = j

\* a returned network that holds a rail of the redundancy phase
C14_Witness ==
    /\ Returned
    /\ additional_edges # <<>>
    /\ Len(result.value) > Len(mst_edges)

\* no system has deposits at or above the source threshold
NoSource(g) ==
    \A sid \in DOMAIN g.systems : g.systems[sid].gravitium_deposits < min_gravitium_default

\* every system has
AllSources(g) ==
    \A sid \in DOMAIN g.systems : g.systems[sid].gravitium_deposits >= min_gravitium_default

---------------------------------------------------------------------------
(* Specification SpecTwoRuns: the same seed and the same galaxy, twice     *)

\* A and B fixed ten light-years apart and all systems of the core profile
TwoRunGalaxies ==
    {g \in GenGalaxies :
        /\ g.systems["A"].coord = 0
        /\ g.systems["B"].coord = 10
        /\ \A sid \in DOMAIN g.systems : g.systems[sid].population = 1000000000}

InitTwoRuns ==
    /\ galaxy \in TwoRunGalaxies
    /\ \E seed \in Seeds : GeneratorCalled(seed)
    /\ first_run = None

\* the first run has returned: a new RailGenerator(seed) with the same seed
\* is given the same galaxy
RunAgain ==
    /\ pc = "done"
    /\ first_run.none
    /\ first_run' = Some(result.value)
    /\ result' = None
    /\ pc' = "start"
    /\ rng' = call.seed
    /\ source_systems' = <<>>
    /\ in_tree' = {}
    /\ mst_edges' = <<>>
    /\ bottlenecks' = <<>>
    /\ additional_edges' = <<>>
    /\ all_edges' = <<>>
    /\ accepted' = <<>>
    /\ construction_date' = 0
    /\ decisions' = <<>>
    /\ UNCHANGED <<galaxy, call>>

NextTwoRuns ==
    \/ Next
    \/ RunAgain

SpecTwoRuns == InitTwoRuns /\ [][NextTwoRuns]_vars

\* both runs have returned
BothReturned == pc = "done" /\ ~first_run.none

\* C8: two runs of generate_rail_network with the same seed on the same
\* galaxy return the same rails: the same ids, the same edges in the same
\* order, and the same class, length, construction_date, interval_days,
\* next_fire, gravitium_cost and max_capacity for every rail
C8_SameSeedSameOutput == BothReturned => result.value = first_run.value

---------------------------------------------------------------------------
(* io/loader.py: galaxy_to_dict and dict_to_galaxy. A dict is a function   *)
(* on its keys; a datetime is a day, an hour of that day and a             *)
(* microsecond; a text is the sequence of its parts.                       *)

\* the mutation: the text stops at the seconds
IsoFormatSeconds(dt) == <<dt.day, dt.hour>>

\* datetime.isoformat(): the date, "T", the time, and the microseconds only
\* when they are not zero
isoformat(dt) ==
    IF dt.microsecond = 0 THEN <<dt.day, dt.hour>>
    ELSE <<dt.day, dt.hour, dt.microsecond>>

\* datetime.fromisoformat(text)
fromisoformat(text) ==
    [day |-> text[1], hour |-> text[2],
     microsecond |-> IF Len(text) >= 3 THEN text[3] ELSE 0]

\* the members of RailClass, StarType and CivilizationTier with their values
RailClassValues ==
    [RFC_A |-> "RFC-A", RFC_B |-> "RFC-B", RFC_C |-> "RFC-C", RFC_D |-> "RFC-D"]

StarTypeValues ==
    [O |-> "O", B |-> "B", A |-> "A", F |-> "F", G |-> "G", K |-> "K", M |-> "M",
     WD |-> "WD", NS |-> "NS", BH |-> "BH"]

CivilizationTierValues ==
    [PRIMITIVE |-> 0, INDUSTRIAL |-> 1, NUCLEAR |-> 2, FUSION |-> 3,
     ANTIMATTER |-> 4, RAIL_AGE |-> 5, SINGULARITY |-> 6, TRANSCENDENT |-> 7]

\* Enum(value): the member with that value
EnumOf(values, value) == CHOOSE member \in DOMAIN values : values[member] = value

\* rail_to_dict(rail)
rail_to_dict(rail) ==
    [id                |-> rail.id,
     from_system       |-> rail.from_system,
     to_system         |-> rail.to_system,
     rail_class        |-> RailClassValues[rail.rail_class],
     length            |-> rail.length,
     construction_date |-> isoformat(rail.construction_date),
     interval_days     |-> rail.interval_days,
     next_fire         |-> isoformat(rail.next_fire),
     gravitium_cost    |-> rail.gravitium_cost,
     max_capacity      |-> rail.max_capacity]

\* dict_to_rail(data)
dict_to_rail(data) ==
    [id                |-> data.id,
     from_system       |-> data.from_system,
     to_system         |-> data.to_system,
     rail_class        |-> EnumOf(RailClassValues, data.rail_class),
     length            |-> data.length,
     construction_date |-> fromisoformat(data.construction_date),
     interval_days     |-> data.interval_days,
     next_fire         |-> fromisoformat(data.next_fire),
     gravitium_cost    |-> data.gravitium_cost,
     max_capacity      |-> data.max_capacity]

\* system_to_dict(system); the systems of the model have no planets
system_to_dict(system) ==
    [id                 |-> system.id,
     name               |-> system.name,
     coord              |-> [x |-> system.coord.x, y |-> system.coord.y,
                             z |-> system.coord.z],
     star_type          |-> StarTypeValues[system.star_type],
     star_mass          |-> system.star_mass,
     star_age           |-> system.star_age,
     planets            |-> <<>>,
     population         |-> system.population,
     tech_level         |-> CivilizationTierValues[system.tech_level],
     faction_control    |-> system.faction_control,
     gravitium_deposits |-> system.gravitium_deposits,
     trade_codes        |-> system.trade_codes,
     rails_out          |-> [i \in DOMAIN system.rails_out |->
                                rail_to_dict(system.rails_out[i])]]

\* dict_to_system(data)
dict_to_system(data) ==
    [id                 |-> data.id,
     name               |-> data.name,
     coord              |-> [x |-> data.coord.x, y |-> data.coord.y,
                             z |-> data.coord.z],
     star_type          |-> EnumOf(StarTypeValues, data.star_type),
     star_mass          |-> data.star_mass,
     star_age           |-> data.star_age,
     planets            |-> <<>>,
     population         |-> data.population,
     tech_level         |-> EnumOf(CivilizationTierValues, data.tech_level),
     faction_control    |-> data.faction_control,
     gravitium_deposits |-> data.gravitium_deposits,
     trade_codes        |-> data.trade_codes,
     rails_out          |-> [i \in DOMAIN data.rails_out |->
                                dict_to_rail(data.rails_out[i])]]

format_version == "1.0"

\* galaxy_to_dict(galaxy); the galaxies of the model have no civilizations
galaxy_to_dict(g) ==
    [format_version |-> format_version,
     galaxy |->
       [id                  |-> g.id,
        name                |-> g.name,
        seed                |-> g.seed,
        generation_time     |-> isoformat(g.generation_time),
        systems             |-> [system_id \in DOMAIN g.systems |->
                                    system_to_dict(g.systems[system_id])],
        rails               |-> [rail_id \in DOMAIN g.rails |->
                                    rail_to_dict(g.rails[rail_id])],
        civilizations       |-> <<>>,
        source_vein_systems |-> g.source_vein_systems]]

\* dict_to_galaxy(data)
dict_to_galaxy(data) ==
    LET galaxy_data == data.galaxy IN
    [id                  |-> galaxy_data.id,
     name                |-> galaxy_data.name,
     seed                |-> galaxy_data.seed,
     generation_time     |-> fromisoformat(galaxy_data.generation_time),
     systems             |-> [system_id \in DOMAIN galaxy_data.systems |->
                                 dict_to_system(galaxy_data.systems[system_id])],
     rails               |-> [rail_id \in DOMAIN galaxy_data.rails |->
                                 dict_to_rail(galaxy_data.rails[rail_id])],
     civilizations       |-> <<>>,
     source_vein_systems |-> galaxy_data.source_vein_systems]

---------------------------------------------------------------------------
(* Specification SpecStore: a galaxy taken to a dict and back              *)

MaxStoredRails == 1

\* midnight and an hour later, to the second and with microseconds
StoredInstants ==
    {[day |-> 0, hour |-> 0, microsecond |-> 0],
     [day |-> 3, hour |-> 1, microsecond |-> 0],
     [day |-> 3, hour |-> 1, microsecond |-> 250000]}

StoredRails(rail_id) ==
    {[id |-> rail_id, from_system |-> "A", to_system |-> "B",
      rail_class |-> rail_class, length |-> 10,
      construction_date |-> construction, interval_days |-> interval_days,
      next_fire |-> next_fire, gravitium_cost |-> 5000, max_capacity |-> 7] :
        rail_class \in {"RFC_A", "RFC_D"},
        construction \in {t \in StoredInstants : t.day = 0 \/ t.microsecond # 0},
        interval_days \in {1, 180}, next_fire \in StoredInstants}

StoredRailIds == [i \in 1..MaxStoredRails |-> <<"R", i>>]

StoredRailDicts ==
    UNION {{f \in [{StoredRailIds[i] : i \in 1..n} -> UNION {StoredRails(StoredRailIds[i]) : i \in 1..n}] :
               \A rail_id \in DOMAIN f : f[rail_id].id = rail_id} :
           n \in 0..MaxStoredRails}

\* what rails_out of a system may hold
StoredRailsOut ==
    {<<>>} \cup
        {<<r>> : r \in {q \in StoredRails(<<"R", 1>>) :
                          /\ q.rail_class = "RFC_A"
                          /\ q.interval_days = 1
                          /\ q.construction_date.day = 0
                          /\ q.next_fire.microsecond # 0}}

\* system A in every variety, system B in two
StoredSystems(system_id) ==
    {[id |-> system_id, name |-> system_id,
      coord |-> [x |-> x, y |-> 0, z |-> 0],
      star_type |-> star_type, star_mass |-> 1, star_age |-> 5, planets |-> <<>>,
      population |-> 9000, tech_level |-> tech_level,
      faction_control |-> "independent", gravitium_deposits |-> deposits,
      trade_codes |-> <<>>, rails_out |-> rails_out] :
        x \in {0, 10},
        star_type \in IF system_id = "A" THEN {"G", "WD"} ELSE {"G"},
        tech_level \in IF system_id = "A" THEN {"PRIMITIVE", "RAIL_AGE"}
                                          ELSE {"RAIL_AGE"},
        deposits \in IF system_id = "A" THEN {0, 1000} ELSE {0},
        rails_out \in IF system_id = "A" THEN StoredRailsOut ELSE {<<>>}}

StoredSystemDicts ==
    UNION {{f \in [ids -> UNION {StoredSystems(system_id) : system_id \in ids}] :
               \A system_id \in ids : f[system_id].id = system_id} :
           ids \in {{"A"}, {"A", "B"}}}

StoredGalaxies ==
    {[id |-> "GAL-1", name |-> "galaxy", seed |-> 42,
      generation_time |-> generation_time, systems |-> systems, rails |-> rail_dict,
      civilizations |-> <<>>, source_vein_systems |-> <<"A">>] :
        generation_time \in {t \in StoredInstants : t.day = 3},
        systems \in StoredSystemDicts,
        rail_dict \in StoredRailDicts}

InitStore ==
    /\ galaxy \in StoredGalaxies
    /\ call = NoCall
    /\ result = None
    /\ GeneratorIdle

\* dict_to_galaxy(galaxy_to_dict(galaxy))
CallRoundTrip ==
    /\ call.op = "none"
    /\ call' = [op |-> "dict_to_galaxy(galaxy_to_dict)"]
    /\ result' = dict_to_galaxy(galaxy_to_dict(galaxy))
    /\ UNCHANGED <<galaxy, genVars>>

NextStore == CallRoundTrip

SpecStore == InitStore /\ [][NextStore]_vars

RoundTripped == call.op = "dict_to_galaxy(galaxy_to_dict)"

\* the serialized fields of a System and of a Rail
SystemFields ==
    {"id", "name", "coord", "star_type", "population", "tech_level",
     "gravitium_deposits"}

RailFields ==
    {"id", "from_system", "to_system", "rail_class", "length", "construction_date",
     "interval_days", "next_fire", "gravitium_cost", "max_capacity"}

\* C19: dict_to_galaxy(galaxy_to_dict(g)) equals g: the same system ids and
\* rail ids, and for every system and every rail the same value of every
\* serialized field.
C19_RoundTripLossless ==
    RoundTripped =>
        /\ DOMAIN result.systems = DOMAIN galaxy.systems
        /\ DOMAIN result.rails = DOMAIN galaxy.rails
        /\ \A system_id \in DOMAIN galaxy.systems : \A f \in SystemFields :
              result.systems[system_id][f] = galaxy.systems[system_id][f]
        /\ \A rail_id \in DOMAIN galaxy.rails : \A f \in RailFields :
              result.rails[rail_id][f] = galaxy.rails[rail_id][f]
        /\ result = galaxy

\* a galaxy of two systems and a rail whose next_fire has microseconds,
\* taken to a dict and back
C19_Witness ==
    /\ RoundTripped
    /\ DOMAIN galaxy.systems = {"A", "B"}
    /\ \E rail_id \in DOMAIN galaxy.rails :
          /\ galaxy.rails[rail_id].next_fire.microsecond # 0
          /\ galaxy.rails[rail_id].rail_class = "RFC_D"

---------------------------------------------------------------------------
(* generators/railgen.py: optimize_rail_schedules                          *)

\* datetime(3000, 1, 1), in days after 2800-01-01
base_time_days == 73049

\* lines 332-336: the keys of system_rails in insertion order
DepartureSystems(rail_list) ==
    FirstSeen([i \in DOMAIN rail_list |-> rail_list[i].from_system])

\* the mutation: the rails of a system stay in the order they were met
InsertionOrder(xs) == xs

RECURSIVE SortByInterval(_)

\* line 346, rails.sort(key=interval_days) on the list of one system: stable
SortByInterval(xs) ==
    IF xs = <<>> THEN <<>>
    ELSE LET rest == SortByInterval(SubSeq(xs, 1, Len(xs) - 1))
             x    == xs[Len(xs)]
             k    == Cardinality({i \in DOMAIN rest :
                         rest[i].interval_days <= x.interval_days})
         IN  SubSeq(rest, 1, k) \o <<x>> \o SubSeq(rest, k + 1, Len(rest))

\* lines 339-358 for the rails of one system: new Rail values, the rails of
\* the galaxy stay as they are
OptimizedGroup(group) ==
    IF Len(group) <= 1 THEN group
    ELSE LET sorted == SortByInterval(group) IN
         [i \in DOMAIN sorted |->
             [sorted[i] EXCEPT !.next_fire =
                 Days(base_time_days)
                   + Days((sorted[i].interval_days * (i - 1)) \div Len(sorted))]]

\* optimize_rail_schedules(galaxy): the values of the returned dict in
\* insertion order
optimize_rail_schedules(g) ==
    LET keys == DepartureSystems(g.rails)
    IN  ConcatAll([k \in DOMAIN keys |->
            OptimizedGroup(SelectSeq(g.rails, LAMBDA r : r.from_system = keys[k]))])

---------------------------------------------------------------------------
(* Specification SpecSession: calls of the core operations one after       *)
(* another on one galaxy, with one RailGenerator and one ScheduleGenerator *)

MaxCalls == 3

\* a rail with every field the operations read
SessionRail(id, from_system, to_system, length, interval_days, next_fire) ==
    [id |-> id, from_system |-> from_system, to_system |-> to_system,
     length |-> length, gravitium_cost |-> 600,
     interval_days |-> interval_days, next_fire |-> next_fire]

\* A (the one source), B and C at 0, 10 and 30 light-years: no two edges
\* cost the same
SessionSystems ==
    [sid \in {"A", "B", "C"} |->
        GenSystem(CASE sid = "A" -> 0 [] sid = "B" -> 10 [] sid = "C" -> 30,
                  IF sid = "A" THEN 2000 ELSE 0, "core")]

SessionRailLists ==
    {<<>>,
     <<SessionRail("R1", "A", "B", 10, 1, 0)>>,
     <<SessionRail("R1", "A", "B", 10, 2, Day),
       SessionRail("R2", "B", "C", 20, 1, 0)>>,
     <<SessionRail("R1", "A", "B", 10, 1, 0),
       SessionRail("R2", "B", "A", 12, 1, 0)>>,
     <<SessionRail("R1", "A", "C", 30, 2, 0),
       SessionRail("R2", "A", "B", 10, 1, Day),
       SessionRail("R3", "B", "C", 20, 1, 0)>>}

\* no call of the session is in progress
BetweenCalls == pc \in {"idle", "done"}

\* two of the orders in which this process may walk a set of the three ids
SessionHashOrders == {<<"A", "B", "C">>, <<"C", "A", "B">>}

InitSession ==
    /\ galaxy \in {[systems |-> SessionSystems, order |-> <<"A", "B", "C">>,
                    rails |-> rs] : rs \in SessionRailLists}
    /\ \E order \in SessionHashOrders :
          call = [op |-> "none", n |-> 0, args |-> <<>>, hash_order |-> order]
    /\ result = None
    /\ pc = "idle"
    /\ rng \in Seeds
    /\ source_systems = <<>>
    /\ in_tree = {}
    /\ mst_edges = <<>>
    /\ bottlenecks = <<>>
    /\ additional_edges = <<>>
    /\ all_edges = <<>>
    /\ accepted = <<>>
    /\ construction_date = 0
    /\ decisions = <<>>
    /\ first_run = None

\* the call record of the next call
NextCall(op, args) == [call EXCEPT !.op = op, !.n = @ + 1, !.args = args]

\* the order in which this process walks a set of system ids
WalkOrder(nodes) == SelectSeq(call.hash_order, LAMBDA sid : sid \in nodes)

\* an operation that is a function of the galaxy and its arguments
PureCall(op, args, value) ==
    /\ BetweenCalls
    /\ call.n < MaxCalls
    /\ call' = NextCall(op, args)
    /\ result' = value
    /\ UNCHANGED <<galaxy, genVars>>

SessionValidate ==
    PureCall("validate_rail_network", <<>>,
             validate_rail_network(galaxy, WalkOrder(AllNodes(galaxy.rails))))

SessionOptimize ==
    PureCall("optimize_rail_schedules", <<>>, optimize_rail_schedules(galaxy))

SessionPairs == {<<"A", "C">>, <<"C", "A">>}

SessionGetRoute ==
    \E ft \in SessionPairs :
        PureCall("get_route", ft, get_route(galaxy, ft[1], ft[2]))

SessionFindRouteSchedule ==
    \E ft \in SessionPairs, t \in {0, Day} :
        PureCall("find_route_schedule", <<ft, t>>,
                 find_route_schedule(galaxy, ft[1], ft[2], t))

SessionJourneyTime ==
    \E ft \in SessionPairs, t \in {0, Day} :
        PureCall("calculate_journey_time", <<ft, t>>,
                 calculate_journey_time(galaxy, ft[1], ft[2], t))

SessionOptimalDeparture ==
    \E ft \in SessionPairs, n \in {0, 1} :
        PureCall("find_optimal_departure_time", <<ft, Days(3), n>>,
                 find_optimal_departure_time(galaxy, ft[1], ft[2], Days(3), n))

\* generate_rail_network(galaxy) is entered; self.rng is where the calls
\* before left it
SessionGenerate ==
    /\ BetweenCalls
    /\ call.n < MaxCalls
    /\ call' = NextCall("generate_rail_network", <<>>)
    /\ result' = None
    /\ pc' = "start"
    /\ source_systems' = <<>>
    /\ in_tree' = {}
    /\ mst_edges' = <<>>
    /\ bottlenecks' = <<>>
    /\ additional_edges' = <<>>
    /\ all_edges' = <<>>
    /\ accepted' = <<>>
    /\ construction_date' = 0
    /\ decisions' = <<>>
    /\ UNCHANGED <<galaxy, rng, first_run>>

\* the observer keeps one call and what it returned
Remember ==
    /\ BetweenCalls
    /\ call.n >= 1
    /\ first_run.none
    /\ first_run' = Some([op |-> call.op, args |-> call.args, result |-> result,
                          galaxy |-> galaxy])
    /\ UNCHANGED <<galaxy, call, result, pc, rng, source_systems, in_tree, mst_edges,
                   bottlenecks, additional_edges, all_edges, accepted,
                   construction_date, decisions>>

NextSession ==
    \/ SessionValidate
    \/ SessionOptimize
    \/ SessionGetRoute
    \/ SessionFindRouteSchedule
    \/ SessionJourneyTime
    \/ SessionOptimalDeparture
    \/ SessionGenerate
    \/ Next
    \/ Remember

SpecSession == InitSession /\ [][NextSession]_vars

\* galaxy.systems and galaxy.rails are what they were when the remembered
\* call returned
GalaxyAsBefore == ~first_run.none => galaxy = first_run.value.galaxy

\* the call that has just returned has the operation and the arguments of
\* the remembered one
SameCallAgain ==
    /\ BetweenCalls
    /\ ~first_run.none
    /\ call.op = first_run.value.op
    /\ call.args = first_run.value.args

\* C20: no core operation changes the Galaxy it is given, whatever calls of
\* validate_rail_network, generate_rail_network, optimize_rail_schedules,
\* get_route, find_route_schedule, calculate_journey_time and
\* find_optimal_departure_time are made one after another; and the result
\* of each depends only on its arguments, not on the calls before it: the
\* same call made again returns the same result.
C20_GalaxyUntouchedResultsRepeat ==
    /\ GalaxyAsBefore
    /\ SameCallAgain => result = first_run.value.result

---------------------------------------------------------------------------
(* build_minimum_spanning_tree: the edge each pass adds                    *)

\* in_tree before the k-th pass of the while loop: the sources and the
\* targets of the edges added so far
TreeBefore(k) ==
    Range(source_systems) \cup {mst_edges[j][2] : j \in 1..(k - 1)}

\* the pairs (f, t) with f in the tree and t outside it
FrontierPairs(tree) ==
    {ft \in Range(galaxy.order) \X Range(galaxy.order) :
        ft[1] \in tree /\ ft[2] \notin tree}

\* the k-th edge leaves the tree for a system outside it at the least cost
\* of all such pairs
CheapestOfFrontier(k) ==
    LET edge == mst_edges[k]
        tree == TreeBefore(k)
    IN  /\ <<edge[1], edge[2]>> \in FrontierPairs(tree)
        /\ edge[3] = EdgeCost(galaxy, edge[1], edge[2])
        /\ \A ft \in FrontierPairs(tree) : edge[3] <= EdgeCost(galaxy, ft[1], ft[2])

\* C21: every edge build_minimum_spanning_tree adds has the least cost
\* (calculate_rail_cost for the class of the estimated capacity) among all
\* pairs (f, t) with f in the tree and t not yet in it; the tree starts as
\* exactly the source systems and each pass adds exactly one new system.
C21_EachStepCheapestFrontierEdge ==
    pc # "start" =>
        /\ \A k \in DOMAIN mst_edges : CheapestOfFrontier(k)
        /\ in_tree = TreeBefore(Len(mst_edges) + 1)
        /\ Cardinality(in_tree) = Len(source_systems) + Len(mst_edges)
        /\ find_source_vein_systems(galaxy, min_gravitium_default) = source_systems

\* two passes have run, and in the first some pair of the frontier cost
\* more than the edge taken
C21_Witness ==
    /\ Len(mst_edges) = 2
    /\ \E ft \in FrontierPairs(TreeBefore(1)) :
          EdgeCost(galaxy, ft[1], ft[2]) > mst_edges[1][3]

---------------------------------------------------------------------------
(* Specification SpecTreeTwice: build_minimum_spanning_tree(galaxy,        *)
(* source_systems) in two runs of the program on the same galaxy and the   *)
(* same source list                                                        *)

\* build_minimum_spanning_tree entered with a source list that is not empty
TreeEntered(g, run) ==
    /\ call = [op |-> "build_minimum_spanning_tree", run |-> run]
    /\ pc = "mst"
    /\ source_systems = find_source_vein_systems(g, min_gravitium_default)
    /\ source_systems # <<>>
    /\ in_tree = Range(source_systems)
    /\ mst_edges = <<>>

InitTreeTwice ==
    /\ galaxy \in GenGalaxies
    /\ TreeEntered(galaxy, 1)
    /\ result = None
    /\ rng = 0
    /\ bottlenecks = <<>>
    /\ additional_edges = <<>>
    /\ all_edges = <<>>
    /\ accepted = <<>>
    /\ construction_date = 0
    /\ decisions = <<>>
    /\ first_run = None

\* lines 106, 131-135: the loop ends and edges is returned
TreeReturned ==
    /\ pc = "mst"
    /\ Cardinality(in_tree) >= Len(galaxy.order) \/ NoBestEdge
    /\ pc' = "tree_done"
    /\ result' = Some(mst_edges)
    /\ UNCHANGED <<galaxy, call, rng, source_systems, in_tree, mst_edges, bottlenecks,
                   additional_edges, all_edges, accepted, construction_date,
                   decisions, first_run>>

\* the program is run again on the same galaxy and the same source list
TreeAgain ==
    /\ pc = "tree_done"
    /\ first_run.none
    /\ first_run' = Some(result.value)
    /\ result' = None
    /\ call' = [call EXCEPT !.run = 2]
    /\ pc' = "mst"
    /\ in_tree' = Range(source_systems)
    /\ mst_edges' = <<>>
    /\ UNCHANGED <<galaxy, rng, source_systems, bottlenecks, additional_edges,
                   all_edges, accepted, construction_date, decisions>>

NextTreeTwice ==
    \/ GrowTree
    \/ TreeReturned
    \/ TreeAgain

SpecTreeTwice == InitTreeTwice /\ [][NextTreeTwice]_vars

\* C22: for the same Galaxy (same systems in the same order) and the same
\* source list, build_minimum_spanning_tree returns the same sequence of
\* edges in every run, also when several frontier-to-outside edges have the
\* same least cost.
C22_TreeSameInEveryRun ==
    (pc = "tree_done" /\ ~first_run.none) => result.value = first_run.value

---------------------------------------------------------------------------
(* Specification SpecRedundancy: add_redundancy_connections(galaxy,        *)
(* mst_edges) on galaxies of four systems and the trees over them          *)

RedundancySystemIds == <<"A", "B", "C", "D">>

\* where the four systems may lie; 50 light-years is the radius of line 160
RedundancyCoords == [A : {0}, B : {10, 45}, C : {20, 60}, D : {30, 70}]

RedundancyGalaxies ==
    {[systems |-> [sid \in Range(RedundancySystemIds) |-> GenSystem(xs[sid], 0, "core")],
      order   |-> RedundancySystemIds,
      rails   |-> <<>>] : xs \in RedundancyCoords}

RECURSIVE TreesFrom(_, _, _)

\* the edge lists a tree grown from `tree` over the systems of g can be:
\* every edge leaves the tree for a system outside it
TreesFrom(g, tree, edges) ==
    IF tree = Range(g.order) THEN {edges}
    ELSE UNION {TreesFrom(g, tree \cup {ft[2]},
                          Append(edges, <<ft[1], ft[2], EdgeCost(g, ft[1], ft[2])>>)) :
                    ft \in {p \in Range(g.order) \X Range(g.order) :
                                p[1] \in tree /\ p[2] \notin tree}}

InitRedundancy ==
    /\ galaxy \in RedundancyGalaxies
    /\ mst_edges \in TreesFrom(galaxy, {"A"}, <<>>)
    /\ call = [op |-> "add_redundancy_connections"]
    /\ result = None
    /\ pc = "redundancy"
    /\ rng \in Seeds
    /\ source_systems = <<"A">>
    /\ in_tree = Range(galaxy.order)
    /\ bottlenecks = Bottlenecks(mst_edges)
    /\ additional_edges = <<>>
    /\ all_edges = <<>>
    /\ accepted = <<>>
    /\ construction_date = 0
    /\ decisions = <<>>
    /\ first_run = None

\* line 182
ReturnAdditional ==
    /\ pc = "redundancy"
    /\ bottlenecks = <<>>
    /\ pc' = "redundancy_done"
    /\ result' = Some(additional_edges)
    /\ UNCHANGED <<galaxy, call, rng, source_systems, in_tree, mst_edges, bottlenecks,
                   additional_edges, all_edges, accepted, construction_date,
                   decisions, first_run>>

NextRedundancy ==
    \/ VisitBottleneck
    \/ ReturnAdditional

SpecRedundancy == InitRedundancy /\ [][NextRedundancy]_vars

\* the phase-1 edges that have sid as an endpoint
Phase1EdgesAt(sid) ==
    {j \in DOMAIN mst_edges : mst_edges[j][1] = sid \/ mst_edges[j][2] = sid}

\* other may be given to start: another system, less than 50 light-years
\* away, with no phase-1 edge between the two in either direction
Qualifies(start, other) ==
    /\ other # start
    /\ distance_to(galaxy.systems[start].coord, galaxy.systems[other].coord) < 50
    /\ \A j \in DOMAIN mst_edges :
          /\ <<mst_edges[j][1], mst_edges[j][2]>> # <<start, other>>
          /\ <<mst_edges[j][1], mst_edges[j][2]>> # <<other, start>>

\* C23: every edge of add_redundancy_connections starts at a system that is
\* an endpoint of exactly one phase-1 edge and ends at a different system
\* less than 50 light-years away that no phase-1 edge joins to the start in
\* either direction, the nearest of the systems satisfying this; each
\* bottleneck gets at most one such edge, and none when no system qualifies.
C23_RedundancyEdgeToNearestUnlinked ==
    /\ \A k \in DOMAIN additional_edges :
          LET start == additional_edges[k][1]
              end   == additional_edges[k][2]
          IN  /\ Cardinality(Phase1EdgesAt(start)) = 1
              /\ Qualifies(start, end)
              /\ \A other \in Range(galaxy.order) :
                    Qualifies(start, other) =>
                        distance_to(galaxy.systems[start].coord,
                                    galaxy.systems[end].coord)
                          <= distance_to(galaxy.systems[start].coord,
                                         galaxy.systems[other].coord)
    /\ \A k1, k2 \in DOMAIN additional_edges :
          additional_edges[k1][1] = additional_edges[k2][1] => k1 = k2

\* an edge was added although a system met earlier in galaxy.systems
\* qualifies as well and lies farther off, and another bottleneck was
\* visited and got no edge
C23_Witness ==
    /\ pc = "redundancy_done"
    /\ Len(additional_edges) < Len(Bottlenecks(mst_edges))
    /\ \E k \in DOMAIN additional_edges :
          \E other \in Range(galaxy.order) :
             /\ Qualifies(additional_edges[k][1], other)
             /\ SystemRank[other] < SystemRank[additional_edges[k][2]]
             /\ distance_to(galaxy.systems[additional_edges[k][1]].coord,
                            galaxy.systems[other].coord)
                  > distance_to(galaxy.systems[additional_edges[k][1]].coord,
                                galaxy.systems[additional_edges[k][2]].coord)

---------------------------------------------------------------------------
(* generate_rail_network: the build-out calendar                           *)

\* construction_start, 2800-01-01 00:00
construction_start == 0

\* the hours of a year of 365.25 days
YearHours == 8766

\* max(1, floor(length / 10)) years
BuildHours(length) == (IF length \div 10 < 1 THEN 1 ELSE length \div 10) * YearHours

\* C24: the construction_date of the accepted rails is strictly increasing
\* in acceptance order: the first accepted rail has construction_start, each
\* accepted rail advances the calendar by max(1, floor(length / 10)) years
\* of 365.25 days, and a rejected candidate does not advance it.
C24_CalendarAdvancesByAcceptedRails ==
    pc \in {"create", "done"} =>
        /\ accepted # <<>> => accepted[1].construction_date = construction_start
        /\ \A k \in 1..(Len(accepted) - 1) :
              /\ accepted[k + 1].construction_date
                    = accepted[k].construction_date + BuildHours(accepted[k].length)
              /\ accepted[k + 1].construction_date > accepted[k].construction_date
        /\ construction_date =
              IF accepted = <<>> THEN construction_start
              ELSE accepted[Len(accepted)].construction_date
                      + BuildHours(accepted[Len(accepted)].length)

\* three rails were accepted, one shorter than ten light-years and one of
\* twenty or more, and a candidate was rejected
C24_Witness ==
    /\ pc = "done"
    /\ Len(accepted) = 3
    /\ SomeRejected
    /\ \E k \in DOMAIN accepted : accepted[k].length < 10
    /\ \E k \in DOMAIN accepted : accepted[k].length >= 20

---------------------------------------------------------------------------
(* Specification SpecOptimize: optimize_rail_schedules on galaxies of up   *)
(* to MaxOptimizeRails rails                                               *)

MaxOptimizeRails == 3

OptimizeRailIds == <<"RAIL-1", "RAIL-2", "RAIL-3", "RAIL-4">>

\* the rails leave A or B for C
OptimizeOrigins == {"A", "B"}

OptimizeIntervals == {1, 2, 5}

OptimizeInstants == {0, Days(73049)}

\* the i-th rail of galaxy.rails
OptimizeRail(i, from_system, interval_days, next_fire) ==
    [id |-> OptimizeRailIds[i], from_system |-> from_system, to_system |-> "C",
     length |-> 10, gravitium_cost |-> 600,
     interval_days |-> interval_days, next_fire |-> next_fire]

RECURSIVE OptimizeRailListsOfLen(_)

OptimizeRailListsOfLen(n) ==
    IF n = 0 THEN {<<>>}
    ELSE {Append(rs, OptimizeRail(n, f, d, t)) :
            rs \in OptimizeRailListsOfLen(n - 1),
            f \in OptimizeOrigins, d \in OptimizeIntervals, t \in OptimizeInstants}

InitOptimize ==
    /\ galaxy \in {[systems |-> SessionSystems, order |-> <<"A", "B", "C">>, rails |-> rs] :
                      rs \in UNION {OptimizeRailListsOfLen(n) : n \in 0..MaxOptimizeRails}}
    /\ call = NoCall
    /\ result = None
    /\ GeneratorIdle

CallOptimizeRailSchedules ==
    /\ call = NoCall
    /\ call' = [op |-> "optimize_rail_schedules"]
    /\ result' = optimize_rail_schedules(galaxy)
    /\ UNCHANGED <<galaxy, genVars>>

NextOptimize == CallOptimizeRailSchedules

SpecOptimize == InitOptimize /\ [][NextOptimize]_vars

Optimized == call.op = "optimize_rail_schedules"

\* the rails of the galaxy that leave the origin of rail
SameOrigin(rail) ==
    {i \in DOMAIN galaxy.rails : galaxy.rails[i].from_system = rail.from_system}

\* the returned rail with the id of the i-th rail of the galaxy
ReturnedFor(i) ==
    result[CHOOSE k \in DOMAIN result : result[k].id = galaxy.rails[i].id]

\* the rails of group can be numbered from 0 by increasing interval_days so
\* that each has next_fire = base epoch + floor(interval_days * i / n) days
SpreadOverEpoch(group) ==
    LET n == Cardinality(group) IN
    \E pos \in [group -> 0..(n - 1)] :
        /\ \A i, j \in group : i # j => pos[i] # pos[j]
        /\ \A i, j \in group :
              pos[i] < pos[j] =>
                  galaxy.rails[i].interval_days <= galaxy.rails[j].interval_days
        /\ \A i \in group :
              ReturnedFor(i).next_fire =
                  Days(base_time_days)
                    + Days((galaxy.rails[i].interval_days * pos[i]) \div n)

\* C25: optimize_rail_schedules returns one rail for every rail id of the
\* Galaxy and no others; each returned rail equals the original in every
\* field except next_fire; a rail that is the only one leaving its origin is
\* returned unchanged; and of the n >= 2 rails of one origin, sorted by
\* increasing interval_days, the rail at position i (from 0) gets
\* next_fire = base epoch + floor(interval_days * i / n) days.
C25_OptimizedRailsKeepAllButNextFire ==
    Optimized =>
        /\ Len(result) = Len(galaxy.rails)
        /\ {result[k].id : k \in DOMAIN result}
              = {galaxy.rails[i].id : i \in DOMAIN galaxy.rails}
        /\ \A i \in DOMAIN galaxy.rails :
              /\ ReturnedFor(i) = [galaxy.rails[i] EXCEPT !.next_fire = ReturnedFor(i).next_fire]
              /\ Cardinality(SameOrigin(galaxy.rails[i])) = 1
                    => ReturnedFor(i) = galaxy.rails[i]
              /\ Cardinality(SameOrigin(galaxy.rails[i])) >= 2
                    => SpreadOverEpoch(SameOrigin(galaxy.rails[i]))

\* one rail leaves B alone; two leave A, the one met first with the longer
\* interval, and the second of the sorted pair is moved off the base epoch
C25_Witness ==
    /\ Optimized
    /\ Len(galaxy.rails) = 3
    /\ galaxy.rails[1].from_system = "A" /\ galaxy.rails[1].interval_days = 5
    /\ galaxy.rails[2].from_system = "B"
    /\ galaxy.rails[3].from_system = "A" /\ galaxy.rails[3].interval_days = 2
    /\ ReturnedFor(1).next_fire = Days(base_time_days) + Days(2)
    /\ ReturnedFor(3).next_fire = Days(base_time_days)
    /\ ReturnedFor(2).next_fire = 0

\* C30: after optimize_rail_schedules any two distinct rails that leave the
\* same origin system have different next_fire times, whatever the
\* interval_days >= 1 of the rails sharing that origin.
C30_SameOriginDifferentNextFire ==
    Optimized =>
        \A k1, k2 \in DOMAIN result :
            (k1 # k2 /\ result[k1].from_system = result[k2].from_system)
                => result[k1].next_fire # result[k2].next_fire

---------------------------------------------------------------------------
(* generate_rail_network: phase 1 reaches every system                     *)

\* the phase-1 edges that end at sid
TreeEdgesInto(sid) == {k \in DOMAIN mst_edges : mst_edges[k][2] = sid}

\* build_minimum_spanning_tree has returned
TreeIsBuilt == pc \in {"redundancy", "create", "done"}

\* C28: with at least one source system phase 1 reaches every system:
\* build_minimum_spanning_tree returns (number of systems - number of
\* sources) edges, every system that is not a source is the target of
\* exactly one of them and no source is a target; the cycle gate of
\* generate_rail_network rejects none of these edges, so every system that
\* is not a source has an incoming rail in the final network.
C28_TreeSpansAndSurvivesGate ==
    source_systems # <<>> =>
        /\ \A sid \in Range(source_systems) : TreeEdgesInto(sid) = {}
        /\ \A sid \in Range(galaxy.order) : Cardinality(TreeEdgesInto(sid)) <= 1
        /\ TreeIsBuilt =>
              /\ Len(mst_edges) = Len(galaxy.order) - Len(source_systems)
              /\ \A sid \in Range(galaxy.order) \ Range(source_systems) :
                    Cardinality(TreeEdgesInto(sid)) = 1
        /\ \A k \in DOMAIN decisions :
              k <= Len(mst_edges) =>
                  /\ decisions[k].accepted
                  /\ decisions[k].edge = <<mst_edges[k][1], mst_edges[k][2]>>
        /\ pc = "done" =>
              \A sid \in Range(galaxy.order) \ Range(source_systems) :
                  \E k \in DOMAIN result.value : result.value[k].to_system = sid

\* one source and two other systems, both reached, and a redundancy edge
\* that the gate rejected
C28_Witness ==
    /\ pc = "done"
    /\ Len(source_systems) = 1
    /\ Len(mst_edges) = 2
    /\ SomeRejected
    /\ Len(result.value) >= 2

---------------------------------------------------------------------------
(* core/models.py: Rail.next_departures, and specification                 *)
(* SpecBothDepartures: Rail.next_departures and                            *)
(* ScheduleGenerator.get_next_departures on the same rail, time and count  *)

\* Rail.next_departures(from_time, count): while from_time > current the
\* firing is advanced, then count firings are listed
next_departures(rail, from_time, count) ==
    LET first == AdvanceWhileBefore(rail.next_fire, from_time, rail.interval_days)
    IN  [i \in 1..count |-> first + (i - 1) * Days(rail.interval_days)]

MaxDepartures == 2

InitBothDepartures ==
    /\ galaxy \in {[systems |-> <<>>, rails |-> <<ScheduleRail(d, t)>>] :
                      d \in 1..MaxInterval, t \in ScheduleTimes}
    /\ call = NoCall
    /\ result = None
    /\ GeneratorIdle

CallBothDepartures ==
    /\ call.op = "none"
    /\ \E t \in ScheduleTimes, n \in 0..MaxDepartures :
        /\ call' = [op |-> "next_departures", time |-> t, count |-> n]
        /\ result' = [of_rail      |-> next_departures(galaxy.rails[1], t, n),
                      of_generator |-> get_next_departures(galaxy.rails[1], t, n)]
    /\ UNCHANGED <<galaxy, genVars>>

NextBothDepartures == CallBothDepartures

SpecBothDepartures == InitBothDepartures /\ [][NextBothDepartures]_vars

\* C29: for every rail with interval_days >= 1, every time t and every
\* count n, Rail.next_departures(t, n) and
\* ScheduleGenerator.get_next_departures(rail, t, n) return the same list of
\* n departures, also when t is exactly a firing time of the rail.
C29_BothDeparturesAgree ==
    call.op = "next_departures" =>
        /\ Len(result.of_rail) = call.count
        /\ result.of_rail = result.of_generator

=============================================================================
